---- MODULE Spec2Model ----
(***************************************************************************)
(* Projection pushdown of polars-plan                                      *)
(* (crates/polars-plan/src/plans/optimizer/projection_pushdown/mod.rs).    *)
(*                                                                         *)
(* The recursive rewrite push_down is modelled as a machine with an        *)
(* explicit call stack: one frame per active push_down call, one action    *)
(* per arm of the dispatcher, and one action for the return into           *)
(* pushdown_and_assign (the replace of the arena slot).                    *)
(***************************************************************************)
EXTENDS Integers, Sequences, FiniteSets, TLC

VARIABLES
    lp_arena,       \* Arena<IR>: the plan nodes, indexed by Node
    expr_arena,     \* Arena<AExpr>: the expression nodes, indexed by Node
    is_count_star,  \* ProjectionPushDown.is_count_star
    stack,          \* the active push_down calls, innermost last
    outcome,        \* Option<PolarsResult<IR>> of the running top-level call
    pass,           \* 0: not started, 1: first run, 2: run on the first run's output
    entry,          \* how the first run is entered, and with which context
    plan,           \* the input: root IR (by value) and the arena below it
    first,          \* Option: outcome and arena at the end of the first run
    jn,             \* the state of a join rule: both sides' pushdown lists
    log,            \* history: the takes, push_down calls and replaces of a run
    call,           \* a context under calls of the accumulator utilities
    walker,         \* a PageWalker, its requests and what it returned
    batch,          \* a GetBatchState, the batches made and handed out
    nulls,          \* a NullChunked: length and chunks
    series          \* an integer series under arg_min / arg_max

vars == <<lp_arena, expr_arena, is_count_star, stack, outcome, pass, entry,
          plan, first, jn, log, call, walker, batch, nulls, series>>

(***************************************************************************)
(* Option, Result                                                          *)
(***************************************************************************)
None == <<>>
Some(x) == <<x>>
is_some(o) == Len(o) = 1
is_none(o) == Len(o) = 0
unwrap(o) == o[1]

Ok(x) == [tag |-> "Ok", val |-> x]
Err(x) == [tag |-> "Err", val |-> x]
Panic(x) == [tag |-> "Panic", val |-> x]
Pending == [tag |-> "Pending"]

(***************************************************************************)
(* Schema: an ordered name -> dtype mapping with unique names              *)
(***************************************************************************)
Field(n, dt) == [name |-> n, dtype |-> dt]

iter_names(schema) == [i \in 1..Len(schema) |-> schema[i].name]

schema_names(schema) == {schema[i].name : i \in 1..Len(schema)}

contains(schema, n) == n \in schema_names(schema)

\* position of a name of the schema (1-based)
index_of(schema, n) == CHOOSE i \in 1..Len(schema) : schema[i].name = n

get_dtype(schema, n) == schema[index_of(schema, n)].dtype

shift_remove(schema, n) == SelectSeq(schema, LAMBDA f : f.name # n)

with_column(schema, n, dt) ==
    IF contains(schema, n)
    THEN [schema EXCEPT ![index_of(schema, n)] = Field(n, dt)]
    ELSE Append(schema, Field(n, dt))

RangeOf(s) == {s[i] : i \in 1..Len(s)}

\* F of the value of e (a local variable: e is evaluated once, wherever the
\* formula that holds it is evaluated)
Bind(e, F(_)) == CHOOSE v \in {F(x) : x \in {e}} : TRUE

\* sort_unstable_by_key over the position in a schema: entries with the same
\* key are equal, so the result is determined
RECURSIVE sort_by_position(_, _, _)
sort_by_position(names, schema, i) ==
    IF i > Len(schema) THEN <<>>
    ELSE SelectSeq(names, LAMBDA n : n = schema[i].name)
            \o sort_by_position(names, schema, i + 1)

(***************************************************************************)
(* DataType predicates read by process_count_star_at_scan                  *)
(***************************************************************************)
is_null(dt) == dt = "Null"
is_primitive_numeric(dt) == dt \in {"Int64", "UInt32", "Float64"}
is_bool(dt) == dt = "Boolean"
is_temporal(dt) == dt \in {"Date", "Datetime"}

(***************************************************************************)
(* AExpr                                                                   *)
(***************************************************************************)
Column(n) == [kind |-> "Column", name |-> n]
BinaryExpr(l, r) == [kind |-> "BinaryExpr", left |-> l, right |-> r]
Literal == [kind |-> "Literal"]

arena_add(arena, x) == Append(arena, x)

column_node_to_name(node, ea) == ea[node].name

node_names(nodes, ea) == [i \in 1..Len(nodes) |-> column_node_to_name(nodes[i], ea)]

check_input_column_node(node, schema, ea) ==
    contains(schema, column_node_to_name(node, ea))

\* the leaf column nodes of an expression, in traversal order
RECURSIVE aexpr_to_column_nodes_iter(_, _)
aexpr_to_column_nodes_iter(node, ea) ==
    LET e == ea[node] IN
    IF e.kind = "Column" THEN <<node>>
    ELSE IF e.kind = "BinaryExpr"
         THEN aexpr_to_column_nodes_iter(e.left, ea)
                \o aexpr_to_column_nodes_iter(e.right, ea)
         ELSE <<>>

(***************************************************************************)
(* ProjectionContext                                                       *)
(***************************************************************************)
ProjectionCopyState(seen, count_star) ==
    [projections_seen |-> seen, is_count_star |-> count_star]

ProjectionContext(acc, names, inner) ==
    [acc_projections |-> acc, projected_names |-> names, inner |-> inner]

DefaultContext == ProjectionContext(<<>>, {}, ProjectionCopyState(0, FALSE))

\* has_pushed_down without the count-star flag
has_pushed_down_acc_only(ctx) == ctx.acc_projections # <<>>

has_pushed_down(ctx) ==
    ctx.acc_projections # <<>> \/ ctx.inner.is_count_star

\* count_star_column without the skip of position 0
count_star_column_no_skip(schema) ==
    LET cheap == {i \in 1..Len(schema) :
                     \/ is_null(schema[i].dtype)
                     \/ is_primitive_numeric(schema[i].dtype)
                     \/ is_bool(schema[i].dtype)
                     \/ is_temporal(schema[i].dtype)}
    IN IF cheap # {}
       THEN CHOOSE i \in cheap : \A j \in cheap : i <= j
       ELSE Len(schema)

\* the column that a count-star query reads: the first cheap column after
\* position 0, else the last one
count_star_column(schema) ==
    IF Len(schema) = 1 THEN 1
    ELSE LET cheap == {i \in 2..Len(schema) :
                          \/ is_null(schema[i].dtype)
                          \/ is_primitive_numeric(schema[i].dtype)
                          \/ is_bool(schema[i].dtype)
                          \/ is_temporal(schema[i].dtype)}
         IN IF cheap # {}
            THEN CHOOSE i \in cheap : \A j \in cheap : i <= j
            ELSE Len(schema)

\* process_count_star_at_scan that does not ask whether anything is accumulated
process_count_star_at_scan_always(ctx, schema, ea) ==
    IF Len(schema) # 0
    THEN LET name == schema[count_star_column(schema)].name
             ea2 == arena_add(ea, Column(name))
         IN [ctx |-> [ctx EXCEPT
                        !.acc_projections = Append(@, Len(ea2)),
                        !.projected_names = @ \cup {name}],
             expr_arena |-> ea2]
    ELSE [ctx |-> ctx, expr_arena |-> ea]

process_count_star_at_scan(ctx, schema, ea) ==
    IF ctx.acc_projections = <<>> /\ Len(schema) # 0
    THEN LET name == schema[count_star_column(schema)].name
             ea2 == arena_add(ea, Column(name))
         IN [ctx |-> [ctx EXCEPT
                        !.acc_projections = Append(@, Len(ea2)),
                        !.projected_names = @ \cup {name}],
             expr_arena |-> ea2]
    ELSE [ctx |-> ctx, expr_arena |-> ea]

(***************************************************************************)
(* Schema / column utilities                                               *)
(***************************************************************************)
\* the names kept by the filter_map of get_scan_columns
scan_column_names(acc, ea, row_index, file_path_col) ==
    SelectSeq(node_names(acc, ea),
              LAMBDA n : /\ ~(is_some(row_index) /\ unwrap(row_index) = n)
                         /\ ~(is_some(file_path_col) /\ unwrap(file_path_col) = n))

\* try_get_full(name).unwrap() inside the sort: reached when the sort compares
get_scan_columns_panics(acc, ea, row_index, file_path_col, normalize_order_schema) ==
    LET names == scan_column_names(acc, ea, row_index, file_path_col) IN
    /\ is_some(normalize_order_schema)
    /\ Len(names) >= 2
    /\ \E i \in 1..Len(names) : ~contains(unwrap(normalize_order_schema), names[i])

get_scan_columns(acc, ea, row_index, file_path_col, normalize_order_schema) ==
    IF acc = <<>> THEN None
    ELSE LET names == scan_column_names(acc, ea, row_index, file_path_col) IN
         IF is_some(normalize_order_schema) /\ Len(names) >= 2
         THEN Some(sort_by_position(names, unwrap(normalize_order_schema), 1))
         ELSE Some(names)

\* split_acc_projections without the branch that keeps everything local
split_acc_projections_always_split(acc, down_schema, ea, expands_schema) ==
    LET pushed == SelectSeq(acc,
            LAMBDA node : check_input_column_node(node, down_schema, ea))
        local == SelectSeq(acc,
            LAMBDA node : ~check_input_column_node(node, down_schema, ea))
    IN [acc_projections |-> pushed, local_projections |-> local,
        names |-> RangeOf(node_names(pushed, ea))]

split_acc_projections(acc, down_schema, ea, expands_schema) ==
    IF ~expands_schema /\ Len(down_schema) = Len(acc)
    THEN [acc_projections |-> <<>>, local_projections |-> acc, names |-> {}]
    ELSE LET pushed == SelectSeq(acc,
                 LAMBDA node : check_input_column_node(node, down_schema, ea))
             local == SelectSeq(acc,
                 LAMBDA node : ~check_input_column_node(node, down_schema, ea))
         IN [acc_projections |-> pushed, local_projections |-> local,
             names |-> RangeOf(node_names(pushed, ea))]

RECURSIVE add_column_nodes(_, _, _, _)
add_column_nodes(nodes, acc, names, ea) ==
    IF nodes = <<>>
    THEN [acc_projections |-> acc, projected_names |-> names]
    ELSE LET name == column_node_to_name(Head(nodes), ea) IN
         IF name \notin names
         THEN add_column_nodes(Tail(nodes), Append(acc, Head(nodes)),
                               names \cup {name}, ea)
         ELSE add_column_nodes(Tail(nodes), acc, names, ea)

\* add_expr_to_accumulated that pushes every leaf, recorded or not
add_expr_to_accumulated_every_leaf(expr, acc, names, ea) ==
    LET leaves == aexpr_to_column_nodes_iter(expr, ea)
    IN [acc_projections |-> acc \o leaves,
        projected_names |-> names \cup RangeOf(node_names(leaves, ea))]

add_expr_to_accumulated(expr, acc, names, ea) ==
    add_column_nodes(aexpr_to_column_nodes_iter(expr, ea), acc, names, ea)

\* add_str_to_accumulated that does not ask whether pushdown is active
add_str_to_accumulated_ungated(name, ctx, ea) ==
    IF name \notin ctx.projected_names
    THEN LET ea2 == arena_add(ea, Column(name))
             r == add_expr_to_accumulated(Len(ea2), ctx.acc_projections,
                                          ctx.projected_names, ea2)
         IN [ctx |-> [ctx EXCEPT !.acc_projections = r.acc_projections,
                                 !.projected_names = r.projected_names],
             expr_arena |-> ea2]
    ELSE [ctx |-> ctx, expr_arena |-> ea]

add_str_to_accumulated(name, ctx, ea) ==
    IF has_pushed_down(ctx) /\ name \notin ctx.projected_names
    THEN LET ea2 == arena_add(ea, Column(name))
             r == add_expr_to_accumulated(Len(ea2), ctx.acc_projections,
                                          ctx.projected_names, ea2)
         IN [ctx |-> [ctx EXCEPT !.acc_projections = r.acc_projections,
                                 !.projected_names = r.projected_names],
             expr_arena |-> ea2]
    ELSE [ctx |-> ctx, expr_arena |-> ea]

RECURSIVE schema_from_fields(_, _)
schema_from_fields(fields, new_schema) ==
    IF fields = <<>> THEN new_schema
    ELSE Bind(with_column(new_schema, Head(fields).name, Head(fields).dtype),
              LAMBDA schema : schema_from_fields(Tail(fields), schema))

\* update_scan_schema that never sorts
update_scan_schema_unsorted(acc, ea, schema, sort_projections) ==
    LET names == node_names(acc, ea)
        missing == {i \in 1..Len(names) : ~contains(schema, names[i])}
    IN IF missing # {}
       THEN Err(names[CHOOSE i \in missing : \A j \in missing : i <= j])
       ELSE Ok(schema_from_fields(
                   [i \in 1..Len(names) |->
                       Field(names[i], get_dtype(schema, names[i]))], <<>>))

update_scan_schema(acc, ea, schema, sort_projections) ==
    Bind(node_names(acc, ea), LAMBDA names :
    LET missing == {i \in 1..Len(names) : ~contains(schema, names[i])}
    IN IF missing # {}
       THEN Err(names[CHOOSE i \in missing : \A j \in missing : i <= j])
       ELSE Bind(IF sort_projections THEN sort_by_position(names, schema, 1)
                 ELSE names, LAMBDA ordered :
            Bind([i \in 1..Len(ordered) |->
                     Field(ordered[i], get_dtype(schema, ordered[i]))],
                 LAMBDA new_cols : Ok(schema_from_fields(new_cols, <<>>)))))

(***************************************************************************)
(* IR: the plan nodes                                                      *)
(***************************************************************************)
Invalid == [kind |-> "Invalid"]

DataFrameScan(schema, output_schema) ==
    [kind |-> "DataFrameScan", schema |-> schema, output_schema |-> output_schema]

PythonScan(schema, with_columns, output_schema) ==
    [kind |-> "PythonScan", schema |-> schema, with_columns |-> with_columns,
     output_schema |-> output_schema]

\* file_info.schema, file_info.reader_schema (its names), scan_type,
\* unified_scan_args.{projection, row_index, include_file_paths}, output_schema
Scan(scan_type, schema, reader_schema, projection, output_schema, row_index, include_file_paths) ==
    [kind |-> "Scan", scan_type |-> scan_type, file_info_schema |-> schema,
     reader_schema |-> reader_schema, projection |-> projection,
     output_schema |-> output_schema, row_index |-> row_index,
     include_file_paths |-> include_file_paths]

Sort(input, by_column) == [kind |-> "Sort", input |-> input, by_column |-> by_column]

Filter(input, predicate) == [kind |-> "Filter", input |-> input, predicate |-> predicate]

Distinct(input, subset) == [kind |-> "Distinct", input |-> input, subset |-> subset]

Cache(input) == [kind |-> "Cache", input |-> input]

MergeSorted(input_left, input_right, key) ==
    [kind |-> "MergeSorted", input_left |-> input_left,
     input_right |-> input_right, key |-> key]

ExtContext(input, contexts, schema) ==
    [kind |-> "ExtContext", input |-> input, contexts |-> contexts, schema |-> schema]

SimpleProjection(input, columns) ==
    [kind |-> "SimpleProjection", input |-> input, columns |-> columns]

\* any IR variant whose rule hands the node to no_pushdown_restart_opt
Other(inputs) == [kind |-> "Other", inputs |-> inputs]

FileScanIR(kind, allows) == [kind |-> kind, allows_projection_pushdown |-> allows]

\* do_optimization that asks no scan whether it permits the pushdown
do_optimization_always(scan_type) == TRUE

do_optimization(scan_type) ==
    IF scan_type.kind = "Anonymous" THEN scan_type.allows_projection_pushdown ELSE TRUE

sort_projection(scan_type, has_row_index) ==
    IF scan_type.kind = "Csv" THEN TRUE
    ELSE IF scan_type.kind = "Ipc" THEN has_row_index
    ELSE FALSE

get_inputs(lp) ==
    IF lp.kind \in {"Sort", "Filter", "Distinct", "Cache", "SimpleProjection",
                    "ExtContext"}
    THEN <<lp.input>>
    ELSE IF lp.kind = "MergeSorted" THEN <<lp.input_left, lp.input_right>>
    ELSE IF lp.kind = "Other" THEN lp.inputs
    ELSE <<>>

\* visiting that also pushes down into the contexts of an ExtContext
visited_inputs_with_contexts(lp) ==
    IF lp.kind = "Cache" THEN <<>>
    ELSE IF lp.kind = "ExtContext" THEN <<lp.input>> \o lp.contexts
    ELSE get_inputs(lp)

\* the inputs that the rule of the node pushes down into, in visiting order
visited_inputs(lp) == IF lp.kind = "Cache" THEN <<>> ELSE get_inputs(lp)

RECURSIVE IR_schema(_, _)
IR_schema(lp, arena) ==
    IF lp.kind \in {"DataFrameScan", "PythonScan"}
    THEN IF is_some(lp.output_schema) THEN unwrap(lp.output_schema) ELSE lp.schema
    ELSE IF lp.kind = "Scan"
    THEN IF is_some(lp.output_schema) THEN unwrap(lp.output_schema)
         ELSE lp.file_info_schema
    ELSE IF lp.kind = "SimpleProjection" THEN lp.columns
    ELSE IF lp.kind = "ExtContext" THEN lp.schema
    ELSE IR_schema(arena[get_inputs(lp)[1]], arena)

take(arena, node) == [arena EXCEPT ![node] = Invalid]

replace(arena, node, lp) == [arena EXCEPT ![node] = lp]

\* IRBuilder::project_simple_nodes over the node `root`
project_simple_nodes(root, nodes, ea, arena) ==
    LET input_schema == IR_schema(arena[root], arena)
        names == node_names(nodes, ea)
    IN IF \E i \in 1..Len(names) : ~contains(input_schema, names[i])
       THEN Err("ColumnNotFound")
       ELSE IF Cardinality(RangeOf(names)) # Len(names)
       THEN Err("Duplicate")
       ELSE Ok(SimpleProjection(root,
                [i \in 1..Len(names) |->
                    Field(names[i], get_dtype(input_schema, names[i]))]))

\* IRBuilder::from_lp(lp).project_simple_nodes(nodes).unwrap().build()
from_lp_project_simple_nodes(lp, nodes, ea, arena) ==
    LET arena2 == arena_add(arena, lp)
        sp == project_simple_nodes(Len(arena2), nodes, ea, arena2)
    IN IF sp.tag = "Ok"
       THEN [res |-> sp, lp_arena |-> arena2]
       ELSE [res |-> Panic(sp.val), lp_arena |-> arena2]

finish_node_simple_projection(local_projections, lp, ea, arena) ==
    IF local_projections # <<>>
    THEN from_lp_project_simple_nodes(lp, local_projections, ea, arena)
    ELSE [res |-> Ok(lp), lp_arena |-> arena]

(***************************************************************************)
(* The arms of push_down that do not recurse.  Each gives the result, the  *)
(* context as the arm leaves it, and the two arenas.                       *)
(***************************************************************************)
ArmResult(res, ctx, ea, arena) ==
    [res |-> res, ctx |-> ctx, expr_arena |-> ea, lp_arena |-> arena]

DataFrameScan_arm(lp, ctx, ea, arena, count_star) ==
    LET st == IF count_star
              THEN process_count_star_at_scan(ctx, lp.schema, ea)
              ELSE [ctx |-> ctx, expr_arena |-> ea]
        schema == update_scan_schema(st.ctx.acc_projections, st.expr_arena,
                                     lp.schema, FALSE)
    IN IF has_pushed_down(st.ctx)
       THEN IF schema.tag = "Ok"
            THEN ArmResult(Ok([lp EXCEPT !.output_schema = Some(schema.val)]),
                           st.ctx, st.expr_arena, arena)
            ELSE ArmResult(schema, st.ctx, st.expr_arena, arena)
       ELSE ArmResult(Ok(lp), st.ctx, st.expr_arena, arena)

PythonScan_arm(lp, ctx, ea, arena, count_star) ==
    LET st == IF count_star
              THEN process_count_star_at_scan(ctx, lp.schema, ea)
              ELSE [ctx |-> ctx, expr_arena |-> ea]
        acc == st.ctx.acc_projections
        with_columns == get_scan_columns(acc, st.expr_arena, None, None,
                                         Some(lp.schema))
        schema == update_scan_schema(acc, st.expr_arena, lp.schema, TRUE)
    IN IF get_scan_columns_panics(acc, st.expr_arena, None, None, Some(lp.schema))
       THEN ArmResult(Panic("unwrap"), st.ctx, st.expr_arena, arena)
       ELSE IF is_none(with_columns)
       THEN ArmResult(Ok([lp EXCEPT !.with_columns = None, !.output_schema = None]),
                      st.ctx, st.expr_arena, arena)
       ELSE IF schema.tag = "Ok"
       THEN ArmResult(Ok([lp EXCEPT !.with_columns = with_columns,
                                    !.output_schema = Some(schema.val)]),
                      st.ctx, st.expr_arena, arena)
       ELSE ArmResult(schema, st.ctx, st.expr_arena, arena)

\* scan_count_star that leaves a scan alone once it has a projection
scan_count_star_once(lp, ctx, ea) ==
    IF is_some(lp.projection)
    THEN [break |-> FALSE, lp |-> lp, ctx |-> ctx, expr_arena |-> ea]
    ELSE [break |-> TRUE,
          lp |-> [lp EXCEPT !.projection = Some(<<>>), !.output_schema = Some(<<>>)],
          ctx |-> ctx, expr_arena |-> ea]

\* Scan arm, is_count_star: gives whether the loop is left (break)
scan_count_star(lp, ctx, ea) ==
    IF lp.scan_type.kind = "Anonymous"
    THEN LET projection ==
                 IF is_some(lp.reader_schema) /\ unwrap(lp.reader_schema) # <<>>
                 THEN <<unwrap(lp.reader_schema)[1]>>
                 ELSE <<>>
         IN IF projection = <<>>
            THEN [break |-> TRUE,
                  lp |-> [lp EXCEPT !.projection = Some(projection),
                                    !.output_schema = Some(<<>>)],
                  ctx |-> ctx, expr_arena |-> ea]
            ELSE [break |-> FALSE,
                  lp |-> [lp EXCEPT !.projection = Some(projection)],
                  ctx |-> [ctx EXCEPT !.acc_projections = Append(@, Len(ea) + 1)],
                  expr_arena |-> arena_add(ea, Column(projection[1]))]
    ELSE [break |-> TRUE,
          lp |-> [lp EXCEPT !.projection = Some(<<>>), !.output_schema = Some(<<>>)],
          ctx |-> ctx, expr_arena |-> ea]

\* Scan arm: projection and output_schema from the accumulated columns
scan_projection(lp, ctx, ea) ==
    Bind(update_scan_schema(ctx.acc_projections, ea, lp.file_info_schema,
             sort_projection(lp.scan_type, is_some(lp.row_index))), LAMBDA r :
    LET projection == get_scan_columns(ctx.acc_projections, ea, lp.row_index,
                                       lp.include_file_paths, None)
    IN IF is_none(projection)
       THEN Ok([lp EXCEPT !.projection = None, !.output_schema = None])
       ELSE IF r.tag # "Ok" THEN r
       ELSE LET schema == r.val
                fp == lp.include_file_paths
                moved == IF is_some(fp) /\ contains(schema, unwrap(fp))
                         THEN Append(shift_remove(schema, unwrap(fp)),
                                     Field(unwrap(fp), get_dtype(schema, unwrap(fp))))
                         ELSE schema
            IN Ok([lp EXCEPT !.projection = projection,
                             !.output_schema = Some(moved)]))

\* culling that clears the setting and keeps the column in the input schema
cull_column_setting_only(lp, col) ==
    IF is_some(col) /\ is_some(lp.output_schema)
       /\ ~contains(unwrap(lp.output_schema), unwrap(col))
    THEN [schema |-> lp.file_info_schema, col |-> None]
    ELSE [schema |-> lp.file_info_schema, col |-> col]

\* Scan arm: a virtual column that is configured but not in the output schema
\* is removed from the input schema
cull_column(lp, col) ==
    IF is_some(col) /\ is_some(lp.output_schema)
       /\ ~contains(unwrap(lp.output_schema), unwrap(col))
    THEN [schema |-> shift_remove(lp.file_info_schema, unwrap(col)), col |-> None]
    ELSE [schema |-> lp.file_info_schema, col |-> col]

cull_virtual_columns(lp) ==
    LET ri == cull_column(lp, lp.row_index)
        lp1 == [lp EXCEPT !.file_info_schema = ri.schema, !.row_index = ri.col]
        fp == cull_column(lp1, lp1.include_file_paths)
    IN [lp1 EXCEPT !.file_info_schema = fp.schema, !.include_file_paths = fp.col]

Scan_arm(lp, ctx, ea, arena, count_star) ==
    LET cs == IF do_optimization(lp.scan_type) /\ count_star
              THEN scan_count_star(lp, ctx, ea)
              ELSE [break |-> ~do_optimization(lp.scan_type), lp |-> lp,
                    ctx |-> ctx, expr_arena |-> ea]
    IN Bind(IF cs.break THEN Ok(cs.lp)
            ELSE scan_projection(cs.lp, cs.ctx, cs.expr_arena), LAMBDA r :
       IF r.tag = "Ok"
       THEN ArmResult(Ok(cull_virtual_columns(r.val)), cs.ctx, cs.expr_arena, arena)
       ELSE ArmResult(r, cs.ctx, cs.expr_arena, arena))

\* Cache arm that projects the cache's input, leaving the cache out
Cache_arm_bypass(lp, ctx, ea, arena) ==
    IF ctx.acc_projections = <<>>
    THEN ArmResult(Ok(lp), ctx, ea, arena)
    ELSE ArmResult(project_simple_nodes(lp.input, ctx.acc_projections, ea, arena),
                   ctx, ea, arena)

Cache_arm(lp, ctx, ea, arena) ==
    IF ctx.acc_projections = <<>>
    THEN ArmResult(Ok(lp), ctx, ea, arena)
    ELSE LET b == from_lp_project_simple_nodes(lp, ctx.acc_projections, ea, arena)
         IN ArmResult(b.res, ctx, ea, b.lp_arena)

(***************************************************************************)
(* The arms that recurse: the context each hands to its input(s)           *)
(***************************************************************************)
CtxState(ctx, ea) == [ctx |-> ctx, expr_arena |-> ea]

RECURSIVE add_exprs_to_accumulated(_, _, _)
add_exprs_to_accumulated(exprs, ctx, ea) ==
    IF exprs = <<>> THEN ctx
    ELSE Bind(add_expr_to_accumulated(Head(exprs), ctx.acc_projections,
                                      ctx.projected_names, ea), LAMBDA r :
              add_exprs_to_accumulated(Tail(exprs),
                  [ctx EXCEPT !.acc_projections = r.acc_projections,
                              !.projected_names = r.projected_names], ea))

RECURSIVE add_strs_to_accumulated(_, _, _)
add_strs_to_accumulated(names, ctx, ea) ==
    IF names = <<>> THEN CtxState(ctx, ea)
    ELSE Bind(add_str_to_accumulated(Head(names), ctx, ea), LAMBDA st :
              add_strs_to_accumulated(Tail(names), st.ctx, st.expr_arena))

Sort_arm(lp, ctx, ea, arena) ==
    IF has_pushed_down(ctx)
    THEN CtxState(add_exprs_to_accumulated(lp.by_column, ctx, ea), ea)
    ELSE CtxState(ctx, ea)

\* Distinct arm that adds columns only for an explicit subset
Distinct_arm_subset_only(lp, ctx, ea, arena) ==
    IF has_pushed_down(ctx) /\ is_some(lp.subset)
    THEN add_strs_to_accumulated(<<Head(unwrap(lp.subset))>>, ctx, ea)
    ELSE CtxState(ctx, ea)

Distinct_arm(lp, ctx, ea, arena) ==
    IF has_pushed_down(ctx)
    THEN IF is_some(lp.subset)
         THEN add_strs_to_accumulated(unwrap(lp.subset), ctx, ea)
         ELSE Bind(iter_names(IR_schema(arena[lp.input], arena)),
                   LAMBDA names : add_strs_to_accumulated(names, ctx, ea))
    ELSE CtxState(ctx, ea)

Filter_arm(lp, ctx, ea, arena) ==
    IF has_pushed_down(ctx)
    THEN CtxState(add_exprs_to_accumulated(<<lp.predicate>>, ctx, ea), ea)
    ELSE CtxState(ctx, ea)

MergeSorted_arm(lp, ctx, ea, arena) ==
    IF has_pushed_down(ctx)
    THEN add_str_to_accumulated(lp.key, ctx, ea)
    ELSE CtxState(ctx, ea)

(***************************************************************************)
(* Frames of push_down                                                     *)
(*   slot     the arena slot the node was taken from (0: passed by value)  *)
(*   lp       the node being rewritten                                     *)
(*   ctx_in   the context the call received                                *)
(*   ctx      the local variable ctx                                       *)
(*   pc       "call": nothing run yet, "wait": in a child, "ret": returned *)
(*   done     the inputs already pushed down and replaced                  *)
(*   local    the local projections a check_schema call gave back          *)
(***************************************************************************)
Frame(slot, lp, ctx) ==
    [slot |-> slot, lp |-> lp, ctx_in |-> ctx, ctx |-> ctx, pc |-> "call",
     done |-> <<>>, local |-> <<>>, res |-> Pending]

\* pushdown_and_assign that reads the node and leaves it in its slot
pushdown_and_assign_no_take(input, ctx, arena) ==
    [frame |-> Frame(input, arena[input], ctx), lp_arena |-> arena, local |-> <<>>]

\* pushdown_and_assign up to the recursive call: take, then push_down
pushdown_and_assign(input, ctx, arena) ==
    [frame |-> Frame(input, arena[input], ctx), lp_arena |-> take(arena, input),
     local |-> <<>>]

pushdown_and_assign_check_schema(input, ctx, arena, ea, expands_schema) ==
    LET alp == arena[input]
        arena2 == take(arena, input)
        down_schema == IR_schema(alp, arena2)
        sp == split_acc_projections(ctx.acc_projections, down_schema, ea,
                                    expands_schema)
    IN [frame |-> Frame(input, alp,
                        [ctx EXCEPT !.acc_projections = sp.acc_projections,
                                    !.projected_names = sp.names]),
        lp_arena |-> arena2,
        local |-> sp.local_projections]

\* no_pushdown_restart_opt that hands its own context to each input
restart_context_kept(ctx) == ctx

\* no_pushdown_restart_opt: the context of each input
restart_context(ctx) == ProjectionContext(<<>>, {}, ctx.inner)

\* the call a waiting frame makes for its next input
call_input(f, arena, ea) ==
    LET input == visited_inputs(f.lp)[Len(f.done) + 1] IN
    IF f.lp.kind = "ExtContext"
    THEN pushdown_and_assign_check_schema(input, f.ctx, arena, ea, FALSE)
    ELSE IF f.lp.kind = "Other"
    THEN pushdown_and_assign(input, restart_context(f.ctx), arena)
    ELSE pushdown_and_assign(input, f.ctx, arena)

\* resume with one context shared by the caller and its input
resume_shared(f, child) ==
    [f EXCEPT !.done = Append(@, child.slot), !.ctx = child.ctx]

\* resume that does not record the input as pushed down
resume_same_input(f, child) == f

\* the caller's frame when an input's push_down has returned Ok: its own
\* context is the one it kept, the input is recorded as done
resume(f, child) == [f EXCEPT !.done = Append(@, child.slot)]

\* ExtContext arm after the pushdown of its input
ext_context_schema(lp, arena) ==
    LET input_schema == IR_schema(arena[lp.input], arena)
        context_fields(i) == IR_schema(arena[lp.contexts[i]], arena)
        merge[i \in 0..Len(lp.contexts)] ==
            IF i = 0 THEN input_schema
            ELSE schema_from_fields(
                    SelectSeq(context_fields(i),
                              LAMBDA fld : ~contains(merge[i - 1], fld.name)),
                    merge[i - 1])
    IN merge[Len(lp.contexts)]

\* what an arm returns once all its inputs are pushed down
finish_arm(f, arena, ea) ==
    IF f.lp.kind = "ExtContext"
    THEN [res |-> Ok([f.lp EXCEPT !.schema = ext_context_schema(f.lp, arena)]),
          lp_arena |-> arena]
    ELSE IF f.lp.kind = "Other"
    THEN finish_node_simple_projection(f.ctx.acc_projections, f.lp, ea, arena)
    ELSE [res |-> Ok(f.lp), lp_arena |-> arena]

(***************************************************************************)
(* The inputs: plans, entry contexts                                       *)
(***************************************************************************)
MaxDepth == 2

\* the expressions the plans and the entry contexts refer to
ExprArena0 ==
    <<Column("a"), Column("b"), Column("c"), Column("d"), Column("e"),
      Column("idx"), Column("path"), Column("z"), Literal>>
    \o <<BinaryExpr(2, 9), BinaryExpr(2, 3), BinaryExpr(11, 2), BinaryExpr(4, 12)>>

NodeOf(e) == CHOOSE i \in 1..Len(ExprArena0) : ExprArena0[i] = e

col(n) == NodeOf(Column(n))

zip_schema(names, dtypes) == [i \in 1..Len(names) |-> Field(names[i], dtypes[i])]

Permutations5 ==
    {p \in [1..5 -> {"a", "b", "c", "d", "e"}] : \A i, j \in 1..5 : p[i] = p[j] => i = j}

DTypes == {"String", "List", "Int64", "Boolean", "Date", "Null"}

SchemaABC == zip_schema(<<"a", "b", "c">>, <<"String", "Int64", "String">>)

SchemaCBA == zip_schema(<<"c", "b", "a">>, <<"String", "String", "Date">>)

\* a file schema with its virtual columns: the row index first, the file
\* path column last
with_virtual(schema, row_index, file_path_col) ==
    (IF is_some(row_index) THEN <<Field(unwrap(row_index), "UInt32")>> ELSE <<>>)
    \o schema
    \o (IF is_some(file_path_col) THEN <<Field(unwrap(file_path_col), "String")>>
        ELSE <<>>)

FileScan(scan_type, schema, reader_schema, output_schema, row_index, file_path_col) ==
    Scan(scan_type, with_virtual(schema, row_index, file_path_col), reader_schema,
         None, output_schema, row_index, file_path_col)

ScanTypes ==
    {FileScanIR("Anonymous", TRUE), FileScanIR("Anonymous", FALSE),
     FileScanIR("Csv", TRUE), FileScanIR("Ipc", TRUE), FileScanIR("Parquet", TRUE)}

ReaderSchemas(scan_type, schema) ==
    IF scan_type.kind = "Anonymous"
    THEN {None, Some(<<>>), Some(iter_names(schema))}
    ELSE {Some(iter_names(schema))}

\* leaves of the general plans
LeavesG ==
    {DataFrameScan(SchemaABC, None),
     PythonScan(SchemaCBA, None, None),
     FileScan(FileScanIR("Csv", TRUE), SchemaCBA, Some(<<"c", "b", "a">>), None,
              None, None),
     FileScan(FileScanIR("Parquet", TRUE), SchemaABC, Some(<<"a", "b", "c">>), None,
              Some("idx"), Some("path")),
     FileScan(FileScanIR("Anonymous", TRUE), SchemaABC, Some(<<"a", "b", "c">>), None,
              None, None)}

\* the output_schema a scan can arrive with: none as built, or the one an
\* earlier pushdown wrote; push_down writes none to a scan that it skips
OutputSchemas(scan_type) ==
    IF do_optimization(scan_type)
    THEN {None, Some(zip_schema(<<"a">>, <<"String">>))}
    ELSE {None}

\* leaves of the plans that are a single scan: every scan kind, with and
\* without virtual columns, fresh or already narrowed
LeavesS ==
    {DataFrameScan(sch, out) :
        sch \in {SchemaABC, SchemaCBA},
        out \in {None, Some(zip_schema(<<"a">>, <<"String">>))}}
    \cup {PythonScan(sch, None, None) : sch \in {SchemaABC, SchemaCBA}}
    \cup UNION {
           {FileScan(t, SchemaABC, rs, out, ri, fp) :
               rs \in ReaderSchemas(t, SchemaABC),
               out \in OutputSchemas(t),
               ri \in {None, Some("idx")},
               fp \in {None, Some("path")}}
           : t \in ScanTypes}

\* leaves with five columns in every declared order
LeavesN ==
    {FileScan(t, zip_schema(p, <<"String", "Int64", "String", "Int64", "String">>),
              Some(p), None, None, None) :
        t \in ScanTypes \ {FileScanIR("Anonymous", FALSE)}, p \in Permutations5}

\* leaves with three columns of every type
LeavesK ==
    LET schemas == {zip_schema(<<"a", "b", "c">>, dts) : dts \in [1..3 -> DTypes]}
    IN {DataFrameScan(sch, None) : sch \in schemas}
       \cup {PythonScan(sch, None, None) : sch \in schemas}
       \cup {FileScan(t, sch, Some(<<"a", "b", "c">>), None, None, None) :
                t \in {FileScanIR("Anonymous", TRUE), FileScanIR("Csv", TRUE)},
                sch \in schemas}

\* the kinds of the scan that is the other input of a node with two inputs
SideKinds == {"DataFrameScan", "PythonScan"}

SchemaBD == zip_schema(<<"b", "d">>, <<"Int64", "String">>)

side_scan(kind, schema) ==
    IF kind = "PythonScan" THEN PythonScan(schema, None, None)
    ELSE DataFrameScan(schema, None)

\* the operators put above a leaf; input 0 stands for the node below
OpTemplates ==
    {Sort(0, <<NodeOf(BinaryExpr(2, 3))>>),
     Filter(0, NodeOf(BinaryExpr(2, 9))),
     Distinct(0, None),
     Distinct(0, Some(<<"c">>)),
     Cache(0),
     MergeSorted(0, 0, "b"),
     ExtContext(0, <<0>>, <<>>),
     Other(<<0, 0>>)}

needs_side(t) == t.kind \in {"MergeSorted", "ExtContext", "Other"}

\* the operator t above node `below`, its other input being node `side`
make_node(t, below, side, arena) ==
    IF t.kind = "MergeSorted"
    THEN MergeSorted(below, side, t.key)
    ELSE IF t.kind = "Other" THEN Other(<<below, side>>)
    ELSE IF t.kind = "ExtContext"
    THEN LET n == ExtContext(below, <<side>>, <<>>)
         IN [n EXCEPT !.schema = ext_context_schema(n, arena)]
    ELSE [t EXCEPT !.input = below]

\* the other input of operator t above node `below`: merge_sorted merges two
\* inputs of one schema, the other operators take any input
side_leaf(t, side, below, arena) ==
    IF t.kind = "MergeSorted"
    THEN side_scan(side, IR_schema(arena[below], arena))
    ELSE side_scan(side, SchemaBD)

\* the arena holding leaf, then each operator of ops (lowest first) above it
RECURSIVE build_arena(_, _, _)
build_arena(ops, side, arena) ==
    IF ops = <<>> THEN arena
    ELSE LET below == Len(arena)
             arena2 == IF needs_side(Head(ops))
                       THEN Append(arena, side_leaf(Head(ops), side, below, arena))
                       ELSE arena
         IN build_arena(Tail(ops), side,
                Append(arena2, make_node(Head(ops), below, Len(arena2), arena2)))

\* a plan: the root node taken out of its arena slot
Plan(ops, leaf, side) ==
    LET arena == build_arena(ops, side, <<leaf>>)
    IN [root |-> arena[Len(arena)], arena |-> take(arena, Len(arena))]

OpChains(n) == UNION {[1..k -> OpTemplates] : k \in 0..n}

context_of(names, inner) ==
    ProjectionContext([i \in 1..Len(names) |-> col(names[i])], RangeOf(names), inner)

Entry(kind, ctx, count_star) == [kind |-> kind, ctx |-> ctx, count_star |-> count_star]

\* optimize seeds the default context; is_count_star is the caller's
EntriesOptimize == {Entry("optimize", DefaultContext, cs) : cs \in BOOLEAN}

\* a rule above calls with the columns it accumulated
EntriesRule(accs) ==
    {Entry("rule", context_of(acc, ProjectionCopyState(1, f[2])), f[1]) :
        acc \in accs, f \in {<<FALSE, FALSE>>, <<TRUE, FALSE>>, <<TRUE, TRUE>>}}

EntriesCountStar ==
    {Entry("rule", context_of(<<>>, ProjectionCopyState(1, TRUE)), TRUE)}

EntriesG ==
    EntriesOptimize \cup EntriesCountStar
        \cup EntriesRule({<<"a">>, <<"c", "a">>})

EntriesS ==
    EntriesOptimize \cup EntriesCountStar
        \cup EntriesRule({<<"a">>, <<"c", "a">>, <<"idx">>, <<"a", "idx">>,
                          <<"path", "a">>, <<"z">>, <<"a", "z">>})

\* chains of the operators that hand their whole context to their input
PassingChains(n) ==
    {ops \in OpChains(n) :
        \A i \in 1..Len(ops) :
            ops[i].kind \in {"Sort", "Filter", "Distinct", "MergeSorted"}}

\* a rule above asks for z, a column of no scan
EntriesAbsent == EntriesRule({<<"a", "z">>})

Inputs ==
    {[plan |-> Plan(ops, leaf, side), entry |-> e] :
        ops \in OpChains(MaxDepth), leaf \in LeavesG, side \in SideKinds,
        e \in EntriesG}
    \cup {[plan |-> Plan(ops, leaf, side), entry |-> e] :
        ops \in PassingChains(MaxDepth), leaf \in LeavesG, side \in SideKinds,
        e \in EntriesAbsent}
    \cup {[plan |-> Plan(<<>>, leaf, "DataFrameScan"), entry |-> e] :
        leaf \in LeavesS, e \in EntriesS}
    \cup {[plan |-> Plan(<<Filter(0, NodeOf(BinaryExpr(2, 9)))>>, leaf,
                         "DataFrameScan"),
           entry |-> e] :
        leaf \in LeavesN, e \in EntriesRule({<<"a">>})}
    \cup {[plan |-> Plan(<<>>, leaf, "DataFrameScan"), entry |-> e] :
        leaf \in LeavesK, e \in EntriesOptimize \cup EntriesCountStar}

NoJoin == [on |-> FALSE]

NoCall == [on |-> FALSE]

\* the state of the other modules
elsewhere == <<walker, batch, nulls, series>>

Init ==
    /\ \E i \in Inputs :
        /\ plan = i.plan
        /\ entry = i.entry
        /\ lp_arena = i.plan.arena
        /\ is_count_star = i.entry.count_star
    /\ expr_arena = ExprArena0
    /\ stack = <<>>
    /\ outcome = None
    /\ pass = 0
    /\ first = None
    /\ jn = NoJoin
    /\ log = <<>>
    /\ call = NoCall
    /\ walker = NoCall /\ batch = NoCall /\ nulls = NoCall /\ series = NoCall

(***************************************************************************)
(* Actions                                                                 *)
(***************************************************************************)
top == stack[Len(stack)]

\* the history of a run: lp_arena.take(node), push_down on the node of a slot
\* (0: the plan passed by value), lp_arena.replace(node, ..)
Event(op, node) == [op |-> op, node |-> node]

entered == <<Event("push_down", 0)>>

taken(frame) == <<Event("take", frame.slot), Event("push_down", frame.slot)>>

replaced(frame) == <<Event("replace", frame.slot)>>

calling(kind) == stack # <<>> /\ top.pc = "call" /\ top.lp.kind = kind

set_top(f) == [stack EXCEPT ![Len(stack)] = f]

static == <<is_count_star, entry, plan, jn, call, elsewhere>>

\* optimize(logical_plan, lp_arena, expr_arena)
optimize ==
    /\ pass = 0
    /\ entry.kind = "optimize"
    /\ stack' = <<Frame(0, plan.root, DefaultContext)>>
    /\ pass' = 1
    /\ log' = entered
    /\ UNCHANGED <<lp_arena, expr_arena, outcome, first, static>>

\* push_down called by a rule above the plan with its context
push_down_from_rule ==
    /\ pass = 0
    /\ entry.kind = "rule"
    /\ stack' = <<Frame(0, plan.root, entry.ctx)>>
    /\ pass' = 1
    /\ log' = entered
    /\ UNCHANGED <<lp_arena, expr_arena, outcome, first, static>>

\* an arm that returns without recursing
returns(arm) ==
    \E r \in {arm} :
        /\ stack' = set_top([top EXCEPT !.pc = "ret", !.res = r.res, !.ctx = r.ctx])
        /\ expr_arena' = r.expr_arena
        /\ lp_arena' = r.lp_arena
        /\ UNCHANGED <<outcome, pass, first, static, log>>

\* an arm that has prepared its context st and pushes down its first input
recurses(arm) ==
    \E st \in {arm} :
        LET f == [top EXCEPT !.ctx = st.ctx, !.pc = "wait"] IN
        \E c \in {call_input(f, lp_arena, st.expr_arena)} :
            /\ stack' = Append(set_top([f EXCEPT !.local = c.local]), c.frame)
            /\ lp_arena' = c.lp_arena
            /\ expr_arena' = st.expr_arena
            /\ log' = log \o taken(c.frame)
            /\ UNCHANGED <<outcome, pass, first, static>>

push_down_DataFrameScan ==
    /\ calling("DataFrameScan")
    /\ returns(DataFrameScan_arm(top.lp, top.ctx, expr_arena, lp_arena, is_count_star))

push_down_PythonScan ==
    /\ calling("PythonScan")
    /\ returns(PythonScan_arm(top.lp, top.ctx, expr_arena, lp_arena, is_count_star))

push_down_Scan ==
    /\ calling("Scan")
    /\ returns(Scan_arm(top.lp, top.ctx, expr_arena, lp_arena, is_count_star))

push_down_Cache ==
    /\ calling("Cache")
    /\ returns(Cache_arm(top.lp, top.ctx, expr_arena, lp_arena))

push_down_Sort ==
    /\ calling("Sort")
    /\ recurses(Sort_arm(top.lp, top.ctx, expr_arena, lp_arena))

push_down_Distinct ==
    /\ calling("Distinct")
    /\ recurses(Distinct_arm(top.lp, top.ctx, expr_arena, lp_arena))

push_down_Filter ==
    /\ calling("Filter")
    /\ recurses(Filter_arm(top.lp, top.ctx, expr_arena, lp_arena))

push_down_MergeSorted ==
    /\ calling("MergeSorted")
    /\ recurses(MergeSorted_arm(top.lp, top.ctx, expr_arena, lp_arena))

push_down_ExtContext ==
    /\ calling("ExtContext")
    /\ recurses(CtxState(top.ctx, expr_arena))

no_pushdown_restart_opt ==
    /\ calling("Other")
    /\ recurses(CtxState(top.ctx, expr_arena))

\* an input's push_down returned Ok: replace its slot, then push down the
\* next input or finish the arm
replace_and_continue ==
    /\ Len(stack) >= 2
    /\ top.pc = "ret"
    /\ top.res.tag = "Ok"
    /\ LET f == resume(stack[Len(stack) - 1], top)
           arena2 == replace(lp_arena, top.slot, top.res.val)
           rest == SubSeq(stack, 1, Len(stack) - 2)
           c == call_input(f, arena2, expr_arena)
           fin == finish_arm(f, arena2, expr_arena)
       IN IF Len(f.done) < Len(visited_inputs(f.lp))
          THEN /\ stack' = rest \o <<f, c.frame>>
               /\ lp_arena' = c.lp_arena
               /\ log' = log \o replaced(top) \o taken(c.frame)
          ELSE /\ stack' = rest \o <<[f EXCEPT !.pc = "ret", !.res = fin.res]>>
               /\ lp_arena' = fin.lp_arena
               /\ log' = log \o replaced(top)
    /\ UNCHANGED <<expr_arena, outcome, pass, first, static>>

\* an input's push_down failed: `?` returns the error, the slot is not replaced
propagate_error ==
    /\ Len(stack) >= 2
    /\ top.pc = "ret"
    /\ top.res.tag # "Ok"
    /\ stack' = SubSeq(stack, 1, Len(stack) - 2)
                    \o <<[stack[Len(stack) - 1] EXCEPT !.pc = "ret", !.res = top.res]>>
    /\ UNCHANGED <<lp_arena, expr_arena, outcome, pass, first, static, log>>

\* the outermost push_down returns to its caller
return_to_caller ==
    /\ Len(stack) = 1
    /\ top.pc = "ret"
    /\ outcome' = Some(top.res)
    /\ stack' = <<>>
    /\ first' = IF pass = 1
                THEN Some([res |-> top.res, lp_arena |-> lp_arena])
                ELSE first
    /\ UNCHANGED <<lp_arena, expr_arena, pass, static, log>>

\* optimize run again on the plan that optimize returned
optimize_again ==
    /\ pass = 1
    /\ entry.kind = "optimize"
    /\ is_some(outcome)
    /\ unwrap(outcome).tag = "Ok"
    /\ stack' = <<Frame(0, unwrap(outcome).val, DefaultContext)>>
    /\ outcome' = None
    /\ pass' = 2
    /\ log' = entered
    /\ UNCHANGED <<lp_arena, expr_arena, first, static>>

Next ==
    \/ optimize
    \/ push_down_from_rule
    \/ push_down_DataFrameScan
    \/ push_down_PythonScan
    \/ push_down_Scan
    \/ push_down_Cache
    \/ push_down_Sort
    \/ push_down_Distinct
    \/ push_down_Filter
    \/ push_down_MergeSorted
    \/ push_down_ExtContext
    \/ no_pushdown_restart_opt
    \/ replace_and_continue
    \/ propagate_error
    \/ return_to_caller
    \/ optimize_again

Spec == Init /\ [][Next]_vars

\* a call that has been made runs on: a step that is possible is taken
SpecLive == Spec /\ WF_vars(Next)

(***************************************************************************)
(* Routing of the accumulated columns at a join                            *)
(***************************************************************************)
JoinRouting(pushdown_left, pushdown_right, names_left, names_right, pushed_at_least_one, already_projected) ==
    [pushdown_left |-> pushdown_left, pushdown_right |-> pushdown_right,
     names_left |-> names_left, names_right |-> names_right,
     pushed_at_least_one |-> pushed_at_least_one,
     already_projected |-> already_projected]

\* join_push_down that pushes to the right side without looking at its schema
join_push_down_unchecked(schema_left, schema_right, proj, pushdown_left, pushdown_right, names_left, names_right, ea) ==
    LET name == column_node_to_name(proj, ea)
        is_in_left == name \in names_left
        is_in_right == name \in names_right
        to_left == check_input_column_node(proj, schema_left, ea) /\ ~is_in_left
        to_right == ~is_in_right
    IN JoinRouting(
         IF to_left THEN Append(pushdown_left, proj) ELSE pushdown_left,
         IF to_right THEN Append(pushdown_right, proj) ELSE pushdown_right,
         IF to_left THEN names_left \cup {name} ELSE names_left,
         IF to_right THEN names_right \cup {name} ELSE names_right,
         to_left \/ to_right,
         is_in_left \/ is_in_right)

\* join_push_down that does not look at what a side has recorded already
join_push_down_again(schema_left, schema_right, proj, pushdown_left, pushdown_right, names_left, names_right, ea) ==
    LET name == column_node_to_name(proj, ea)
        is_in_left == name \in names_left
        is_in_right == name \in names_right
        to_left == check_input_column_node(proj, schema_left, ea)
        to_right == check_input_column_node(proj, schema_right, ea)
    IN JoinRouting(
         IF to_left THEN Append(pushdown_left, proj) ELSE pushdown_left,
         IF to_right THEN Append(pushdown_right, proj) ELSE pushdown_right,
         IF to_left THEN names_left \cup {name} ELSE names_left,
         IF to_right THEN names_right \cup {name} ELSE names_right,
         to_left \/ to_right,
         is_in_left \/ is_in_right)

join_push_down(schema_left, schema_right, proj, pushdown_left, pushdown_right, names_left, names_right, ea) ==
    LET name == column_node_to_name(proj, ea)
        is_in_left == name \in names_left
        is_in_right == name \in names_right
        to_left == check_input_column_node(proj, schema_left, ea) /\ ~is_in_left
        to_right == check_input_column_node(proj, schema_right, ea) /\ ~is_in_right
    IN JoinRouting(
         IF to_left THEN Append(pushdown_left, proj) ELSE pushdown_left,
         IF to_right THEN Append(pushdown_right, proj) ELSE pushdown_right,
         IF to_left THEN names_left \cup {name} ELSE names_left,
         IF to_right THEN names_right \cup {name} ELSE names_right,
         to_left \/ to_right,
         is_in_left \/ is_in_right)

\* the expressions of a join: id, x, y
JoinArena == <<Column("id"), Column("x"), Column("y")>>

JoinSchema(names) == zip_schema(names, [i \in 1..Len(names) |-> "Int64"])

JoinSchemasLeft ==
    {JoinSchema(<<"id", "x">>), JoinSchema(<<"x", "id">>),
     JoinSchema(<<"id", "x", "y">>)}

JoinSchemasRight ==
    {JoinSchema(<<"id", "y">>), JoinSchema(<<"id">>), JoinSchema(<<"id", "x">>)}

\* the accumulated columns: column nodes, no name twice, at least one
JoinSelections ==
    {acc \in UNION {[1..n -> 1..Len(JoinArena)] : n \in 1..Len(JoinArena)} :
        \A i, j \in 1..Len(acc) : i # j => acc[i] # acc[j]}

\* a join of two inputs on left_on = id (the right key), reached with
\* acc_projections = acc
Join(schema_left, schema_right, left_on, acc) ==
    [on |-> TRUE,
     schema_left |-> schema_left, schema_right |-> schema_right,
     left_on |-> left_on, right_on |-> <<1>>,
     acc_projections |-> acc,
     pushdown_left |-> <<>>, pushdown_right |-> <<>>,
     names_left |-> {}, names_right |-> {},
     pc |-> "left_on", routed |-> <<>>]

\* the joins: a selected column is a column of the left input, of the right
\* input, of both, or (y, when no input has it) of neither
Joins ==
    {Join(l, r, left_on, acc) : l \in JoinSchemasLeft, r \in JoinSchemasRight,
                                left_on \in {<<1>>, <<2>>},
                                acc \in JoinSelections}

InitJoin ==
    /\ jn \in Joins
    /\ expr_arena = JoinArena
    /\ lp_arena = <<>>
    /\ is_count_star = FALSE
    /\ stack = <<>>
    /\ outcome = None
    /\ pass = 0
    /\ first = None
    /\ log = <<>>
    /\ call = NoCall
    /\ walker = NoCall /\ batch = NoCall /\ nulls = NoCall /\ series = NoCall
    /\ entry = [kind |-> "join"]
    /\ plan = [arena |-> <<>>, root |-> Invalid]

apart_from_join ==
    <<lp_arena, expr_arena, is_count_star, stack, outcome, pass, entry, plan,
      first, log, call, elsewhere>>

\* the keys of the left input are added to what is pushed down to the left
add_keys_left ==
    /\ jn.on
    /\ jn.pc = "left_on"
    /\ LET r == add_exprs_to_accumulated(jn.left_on,
                    [acc_projections |-> jn.pushdown_left,
                     projected_names |-> jn.names_left], expr_arena)
       IN jn' = [jn EXCEPT !.pushdown_left = r.acc_projections,
                           !.names_left = r.projected_names,
                           !.pc = "right_on"]
    /\ UNCHANGED apart_from_join

\* the keys of the right input are added to what is pushed down to the right
add_keys_right ==
    /\ jn.on
    /\ jn.pc = "right_on"
    /\ LET r == add_exprs_to_accumulated(jn.right_on,
                    [acc_projections |-> jn.pushdown_right,
                     projected_names |-> jn.names_right], expr_arena)
       IN jn' = [jn EXCEPT !.pushdown_right = r.acc_projections,
                           !.names_right = r.projected_names,
                           !.pc = "acc"]
    /\ UNCHANGED apart_from_join

\* the next accumulated column goes through join_push_down
route_projection ==
    /\ jn.on
    /\ jn.pc = "acc"
    /\ LET i == Len(jn.routed) + 1
           r == join_push_down(jn.schema_left, jn.schema_right,
                               jn.acc_projections[i],
                               jn.pushdown_left, jn.pushdown_right,
                               jn.names_left, jn.names_right, expr_arena)
       IN jn' = [jn EXCEPT !.pushdown_left = r.pushdown_left,
                           !.pushdown_right = r.pushdown_right,
                           !.names_left = r.names_left,
                           !.names_right = r.names_right,
                           !.routed = Append(@, <<r.pushed_at_least_one,
                                                  r.already_projected>>),
                           !.pc = IF i = Len(jn.acc_projections)
                                  THEN "done" ELSE "acc"]
    /\ UNCHANGED apart_from_join

NextJoin ==
    \/ add_keys_left
    \/ add_keys_right
    \/ route_projection

SpecJoin == InitJoin /\ [][NextJoin]_vars

(***************************************************************************)
(* The accumulator utilities, called on their own                          *)
(***************************************************************************)
UtilNames == {"a", "b", "d"}

UtilContexts ==
    {context_of(names, ProjectionCopyState(0, cs)) :
        names \in {<<>>, <<"a">>, <<"b", "a">>, <<"a", "d">>, <<"d", "b", "a">>},
        cs \in BOOLEAN}

UtilSchemas ==
    {SchemaABC, SchemaBD, zip_schema(<<"a">>, <<"String">>),
     zip_schema(<<"d", "a">>, <<"String", "String">>)}

InitUtil ==
    /\ call \in {[on |-> TRUE, ctx |-> ctx, last |-> None] : ctx \in UtilContexts}
    /\ walker = NoCall /\ batch = NoCall /\ nulls = NoCall /\ series = NoCall
    /\ expr_arena = ExprArena0
    /\ lp_arena = <<>>
    /\ is_count_star = FALSE
    /\ stack = <<>>
    /\ outcome = None
    /\ pass = 0
    /\ first = None
    /\ log = <<>>
    /\ jn = NoJoin
    /\ entry = [kind |-> "utility"]
    /\ plan = [arena |-> <<>>, root |-> Invalid]

apart_from_call ==
    <<lp_arena, is_count_star, stack, outcome, pass, entry, plan, first, log, jn,
      elsewhere>>

\* add_str_to_accumulated(name, &mut ctx, expr_arena)
call_add_str_to_accumulated ==
    /\ call.on
    /\ \E name \in UtilNames :
          LET st == add_str_to_accumulated(name, call.ctx, expr_arena)
          IN /\ call' = [call EXCEPT
                           !.ctx = st.ctx,
                           !.last = Some([fn |-> "add_str_to_accumulated",
                                          name |-> name,
                                          ctx |-> call.ctx,
                                          expr_arena |-> expr_arena])]
             /\ expr_arena' = st.expr_arena
    /\ UNCHANGED apart_from_call

\* split_acc_projections(ctx.acc_projections, down_schema, expr_arena,
\* expands_schema), and the context that pushdown_and_assign_check_schema makes
\* of it for an input with the schema down_schema
call_split_acc_projections ==
    /\ call.on
    /\ \E down_schema \in UtilSchemas, expands_schema \in BOOLEAN :
          call' = [call EXCEPT
                     !.last = Some([fn |-> "split_acc_projections",
                                    down_schema |-> down_schema,
                                    expands_schema |-> expands_schema,
                                    acc_projections |-> call.ctx.acc_projections,
                                    result |-> split_acc_projections(
                                                  call.ctx.acc_projections,
                                                  down_schema, expr_arena,
                                                  expands_schema),
                                    child |-> pushdown_and_assign_check_schema(
                                                  1, call.ctx,
                                                  <<DataFrameScan(down_schema, None)>>,
                                                  expr_arena, expands_schema).frame.ctx])]
    /\ UNCHANGED <<expr_arena, apart_from_call>>

\* the expressions: columns, b + c, (b + c) + b, d + ((b + c) + b)
UtilExprs ==
    {col("a"), col("b"), col("d"), NodeOf(BinaryExpr(2, 3)),
     NodeOf(BinaryExpr(11, 2)), NodeOf(BinaryExpr(4, 12))}

\* add_expr_to_accumulated(expr, &mut ctx.acc_projections,
\* &mut ctx.projected_names, expr_arena)
call_add_expr_to_accumulated ==
    /\ call.on
    /\ \E expr \in UtilExprs :
          LET r == add_expr_to_accumulated(expr, call.ctx.acc_projections,
                                           call.ctx.projected_names, expr_arena)
          IN call' = [call EXCEPT
                        !.ctx = [@ EXCEPT !.acc_projections = r.acc_projections,
                                          !.projected_names = r.projected_names],
                        !.last = Some([fn |-> "add_expr_to_accumulated",
                                       expr |-> expr,
                                       ctx |-> call.ctx])]
    /\ UNCHANGED <<expr_arena, apart_from_call>>

\* the schemas of a scan: 0 to 2 columns of every type, 3 columns of a
\* string, a numeric or a boolean type
CountStarSchemas ==
    UNION {{zip_schema(SubSeq(<<"a", "b", "d">>, 1, n), dtypes) :
               dtypes \in [1..n -> DTypes]} : n \in 0..2}
    \cup {zip_schema(<<"a", "b", "d">>, dtypes) :
               dtypes \in [1..3 -> {"String", "Int64", "Boolean"}]}

\* ctx.process_count_star_at_scan(schema, expr_arena)
call_process_count_star_at_scan ==
    /\ call.on
    /\ \E schema \in CountStarSchemas :
          LET st == process_count_star_at_scan(call.ctx, schema, expr_arena)
          IN /\ call' = [call EXCEPT
                           !.ctx = st.ctx,
                           !.last = Some([fn |-> "process_count_star_at_scan",
                                          schema |-> schema,
                                          ctx |-> call.ctx,
                                          expr_arena |-> expr_arena])]
             /\ expr_arena' = st.expr_arena
    /\ UNCHANGED apart_from_call

\* the schema that orders the columns of a scan: (c, b, a) and (d, c, b, a)
OrderSchemas ==
    {SchemaCBA,
     zip_schema(<<"d", "c", "b", "a">>, <<"String", "String", "String", "Date">>)}

\* get_scan_columns(&ctx.acc_projections, expr_arena, row_index, file_path_col,
\* normalize_order_schema): what it returns, or the panic of the unwrap in
\* its sort key
call_get_scan_columns ==
    /\ call.on
    /\ \E row_index \in {None, Some("a")}, file_path_col \in {None, Some("d")},
          normalize_order_schema \in {None} \cup {Some(s) : s \in OrderSchemas} :
          call' = [call EXCEPT
                     !.last = Some([fn |-> "get_scan_columns",
                                    acc_projections |-> call.ctx.acc_projections,
                                    row_index |-> row_index,
                                    file_path_col |-> file_path_col,
                                    normalize_order_schema |-> normalize_order_schema,
                                    result |->
                                        IF get_scan_columns_panics(
                                               call.ctx.acc_projections, expr_arena,
                                               row_index, file_path_col,
                                               normalize_order_schema)
                                        THEN Panic("unwrap")
                                        ELSE Ok(get_scan_columns(
                                               call.ctx.acc_projections, expr_arena,
                                               row_index, file_path_col,
                                               normalize_order_schema))])]
    /\ UNCHANGED <<expr_arena, apart_from_call>>

\* update_scan_schema(&ctx.acc_projections, expr_arena, schema, sort_projections)
call_update_scan_schema ==
    /\ call.on
    /\ \E schema \in OrderSchemas, sort_projections \in BOOLEAN :
          call' = [call EXCEPT
                     !.last = Some([fn |-> "update_scan_schema",
                                    acc_projections |-> call.ctx.acc_projections,
                                    schema |-> schema,
                                    sort_projections |-> sort_projections,
                                    result |-> update_scan_schema(
                                                   call.ctx.acc_projections,
                                                   expr_arena, schema,
                                                   sort_projections)])]
    /\ UNCHANGED <<expr_arena, apart_from_call>>

NextUtil ==
    \/ call_add_str_to_accumulated
    \/ call_update_scan_schema
    \/ call_get_scan_columns
    \/ call_process_count_star_at_scan
    \/ call_add_expr_to_accumulated
    \/ call_split_acc_projections

SpecUtil == InitUtil /\ [][NextUtil]_vars

(***************************************************************************)
(* PageWalker of polars-io (crates/polars-io/src/catalog/unity/utils.rs)   *)
(*   self    the fields next_page_token and has_run                        *)
(*   calls   one entry per call of next: the request it sent (if any),     *)
(*           the response the server gave, and what next returned          *)
(*   pc      "next": the caller drives next itself; "first", "loop",       *)
(*           "done": read_all_pages before its first await, in its loop,   *)
(*           returned                                                      *)
(***************************************************************************)
MaxCalls == 4

PageTokens == {"t1", "t2"}

PageItems == {<<>>, <<"x">>, <<"y", "z">>}

\* what the server can do with a request: a decodable body, a failed
\* request, a body decode_json_response rejects
Responses ==
    {Ok([items |-> p, next_page_token |-> t]) :
        p \in PageItems, t \in {None} \cup {Some(k) : k \in PageTokens}}
    \cup {Err("request"), Err("decode")}

no_pushdown ==
    /\ call = NoCall
    /\ expr_arena = <<>>
    /\ lp_arena = <<>>
    /\ is_count_star = FALSE
    /\ stack = <<>>
    /\ outcome = None
    /\ pass = 0
    /\ first = None
    /\ log = <<>>
    /\ jn = NoJoin
    /\ entry = [kind |-> "none"]
    /\ plan = [arena |-> <<>>, root |-> Invalid]

pushdown_vars ==
    <<call, expr_arena, lp_arena, is_count_star, stack, outcome, pass, first, log,
      jn, entry, plan>>

PageWalker_new == [next_page_token |-> None, has_run |-> FALSE]

next_bytes_always_requests(self, response) ==
    [self |-> [has_run |-> TRUE, next_page_token |-> None],
     request |-> Some([page_token |-> self.next_page_token]),
     result |-> IF response = Err("request") THEN response ELSE Ok(Some(response))]

next_bytes(self, response) ==
    IF self.has_run /\ is_none(self.next_page_token)
    THEN [self |-> self, request |-> None, result |-> Ok(None)]
    ELSE [self |-> [has_run |-> TRUE, next_page_token |-> None],
          request |-> Some([page_token |-> self.next_page_token]),
          result |-> IF response = Err("request") THEN response ELSE Ok(Some(response))]

PageWalker_next(self, response) ==
    LET b == next_bytes(self, response) IN
    IF b.result.tag = "Err" \/ is_none(b.result.val)
    THEN b
    ELSE LET decoded == unwrap(b.result.val) IN
         IF decoded.tag = "Err"
         THEN [b EXCEPT !.result = decoded]
         ELSE [self |-> [b.self EXCEPT !.next_page_token = decoded.val.next_page_token],
               request |-> b.request,
               result |-> Ok(Some(decoded.val.items))]

called(r, response) ==
    [request |-> r.request,
     response |-> IF is_some(r.request) THEN Some(response) ELSE None,
     result |-> r.result]

InitWalk ==
    /\ walker = [on |-> TRUE, self |-> PageWalker_new, calls |-> <<>>, pc |-> "next",
                 from |-> 0, out |-> <<>>, result |-> None]
    /\ batch = NoCall /\ nulls = NoCall /\ series = NoCall
    /\ no_pushdown

apart_from_walker == <<pushdown_vars, batch, nulls, series>>

walker_next ==
    /\ walker.on
    /\ walker.pc = "next"
    /\ Len(walker.calls) < MaxCalls
    /\ \E response \in Responses :
        \E r \in {PageWalker_next(walker.self, response)} :
            walker' = [walker EXCEPT !.self = r.self,
                                     !.calls = Append(@, called(r, response))]
    /\ UNCHANGED apart_from_walker

read_all_pages ==
    /\ walker.on
    /\ walker.pc \in {"next", "loop"}
    /\ Len(walker.calls) < MaxCalls
    /\ \E response \in Responses :
        \E r \in {PageWalker_next(walker.self, response)} :
            \E w \in {[walker EXCEPT !.self = r.self,
                                     !.calls = Append(@, called(r, response)),
                                     !.from = IF walker.pc = "next"
                                              THEN Len(walker.calls) ELSE @]} :
                walker' =
                    IF r.result.tag = "Err"
                    THEN [w EXCEPT !.pc = "done", !.result = Some(r.result)]
                    ELSE IF is_none(r.result.val)
                    THEN [w EXCEPT !.pc = "done", !.result = Some(Ok(walker.out))]
                    ELSE [w EXCEPT !.pc = "loop",
                                   !.out = @ \o unwrap(r.result.val)]
    /\ UNCHANGED apart_from_walker

NextWalk ==
    \/ walker_next
    \/ read_all_pages

SpecWalk == InitWalk /\ [][NextWalk]_vars

(***************************************************************************)
(* GetBatchState of polars-stream                                          *)
(* (crates/polars-stream/src/nodes/io_sources/batch.rs)                    *)
(*   peek           the field peek                                         *)
(*   output_schema  the field of the BatchFnReader that owns the state     *)
(*   produced       what the wrapped function returned, call by call       *)
(*   calls          one entry per call of peek, next or _file_schema:      *)
(*                  what it returned and how often it ran the function     *)
(***************************************************************************)
DataFrames == {"A", "B"}

df_schema(df) == [schema_of |-> df]

SchemaRef_default == [schema_of |-> "empty"]

\* what the wrapped function can return
GetBatchFn == {Ok(Some(df)) : df \in DataFrames} \cup {Ok(None), Err("func")}

GetBatchState_from == [peek |-> None]

GetBatchState_peek_always_calls(self, r) ==
    IF r.tag = "Err"
    THEN [self |-> self, result |-> r, func |-> 1]
    ELSE [self |-> [peek |-> r.val], result |-> Ok(r.val), func |-> 1]

GetBatchState_peek(self, r) ==
    IF is_none(self.peek)
    THEN IF r.tag = "Err"
         THEN [self |-> self, result |-> r, func |-> 1]
         ELSE [self |-> [peek |-> r.val], result |-> Ok(r.val), func |-> 1]
    ELSE [self |-> self, result |-> Ok(self.peek), func |-> 0]

GetBatchState_next(self, r) ==
    IF is_some(self.peek)
    THEN [self |-> [peek |-> None], result |-> Ok(Some(unwrap(self.peek))), func |-> 0]
    ELSE [self |-> self, result |-> r, func |-> 1]

InitBatch ==
    /\ batch = [on |-> TRUE, self |-> GetBatchState_from, output_schema |-> None,
                produced |-> <<>>, calls |-> <<>>]
    /\ walker = NoCall /\ nulls = NoCall /\ series = NoCall
    /\ no_pushdown

apart_from_batch == <<pushdown_vars, walker, nulls, series>>

batch_called(op, r, c) ==
    [batch EXCEPT !.self = c.self,
                  !.produced = IF c.func = 1 THEN Append(@, r) ELSE @,
                  !.calls = Append(@, [op |-> op, result |-> c.result, func |-> c.func])]

batch_peek ==
    /\ batch.on
    /\ Len(batch.calls) < MaxCalls
    /\ \E r \in GetBatchFn :
        \E c \in {GetBatchState_peek(batch.self, r)} :
            batch' = batch_called("peek", r, c)
    /\ UNCHANGED apart_from_batch

batch_next ==
    /\ batch.on
    /\ Len(batch.calls) < MaxCalls
    /\ \E r \in GetBatchFn :
        \E c \in {GetBatchState_next(batch.self, r)} :
            batch' = batch_called("next", r, c)
    /\ UNCHANGED apart_from_batch

batch_file_schema ==
    /\ batch.on
    /\ Len(batch.calls) < MaxCalls
    /\ \E r \in GetBatchFn :
        IF is_none(batch.output_schema)
        THEN \E c \in {GetBatchState_peek(batch.self, r)} :
                IF c.result.tag = "Err"
                THEN batch' = batch_called("_file_schema", r, c)
                ELSE \E schema \in {IF is_some(c.result.val)
                                    THEN df_schema(unwrap(c.result.val))
                                    ELSE SchemaRef_default} :
                        batch' = [batch_called("_file_schema", r,
                                               [c EXCEPT !.result = Ok(schema)])
                                    EXCEPT !.output_schema = Some(schema)]
        ELSE batch' = [batch EXCEPT !.calls =
                        Append(@, [op |-> "_file_schema",
                                   result |-> Ok(unwrap(batch.output_schema)),
                                   func |-> 0])]
    /\ UNCHANGED apart_from_batch

NextBatch ==
    \/ batch_peek
    \/ batch_next
    \/ batch_file_schema

SpecBatch == InitBatch /\ [][NextBatch]_vars

(***************************************************************************)
(* NullChunked of polars-core                                              *)
(* (crates/polars-core/src/series/implementations/null.rs)                 *)
(*   A chunk is a NullArray, which is nothing but its length (a usize);    *)
(*   the field length is an IdxSize, here IdxBits wide.                    *)
(*   this    the series the operations are called on                       *)
(*   other   a second series: the right part of the last split_at, or the  *)
(*           argument of the last append / extend                          *)
(*   fits    every length met so far was within the range of IdxSize       *)
(*   last    the last operation and what it returned                       *)
(***************************************************************************)
IdxBits == 3

IdxSize_range == 2 ^ IdxBits

as_IdxSize(n) == n % IdxSize_range

NullLens == {0, 1, 2, 5}

Offsets == {-2, -1, 0, 1, 3}

RECURSIVE total_len(_)
total_len(chunks) ==
    IF chunks = <<>> THEN 0 ELSE Head(chunks) + total_len(Tail(chunks))

\* the sum of the chunk lengths as split_at takes it: in IdxSize
RECURSIVE sum_IdxSize(_)
sum_IdxSize(chunks) ==
    IF chunks = <<>> THEN 0
    ELSE as_IdxSize(as_IdxSize(Head(chunks)) + sum_IdxSize(Tail(chunks)))

clamp(x, lo, hi) == IF x < lo THEN lo ELSE IF x > hi THEN hi ELSE x

slice_offsets(offset, length, array_len) ==
    LET signed_start_offset == IF offset < 0 THEN offset + array_len ELSE offset
        signed_stop_offset == signed_start_offset + length
        start == clamp(signed_start_offset, 0, array_len)
        stop == clamp(signed_stop_offset, 0, array_len)
    IN  <<start, stop - start>>

RECURSIVE chunkops_slice_iter(_, _, _)
chunkops_slice_iter(chunks, remaining_offset, remaining_length) ==
    IF chunks = <<>> THEN <<>>
    ELSE LET chunk_len == Head(chunks) IN
         IF remaining_offset > 0 /\ remaining_offset >= chunk_len
         THEN chunkops_slice_iter(Tail(chunks), remaining_offset - chunk_len,
                                  remaining_length)
         ELSE LET take_len == IF remaining_length + remaining_offset > chunk_len
                              THEN chunk_len - remaining_offset
                              ELSE remaining_length
              IN  <<take_len>> \o
                  (IF remaining_length - take_len = 0 THEN <<>>
                   ELSE chunkops_slice_iter(Tail(chunks), 0,
                                            remaining_length - take_len))

chunkops_slice(chunks, offset, slice_length, own_length) ==
    LET o == slice_offsets(offset, slice_length, own_length)
        new_chunks == chunkops_slice_iter(chunks, o[1], o[2])
    IN  [chunks |-> IF new_chunks = <<>> THEN <<0>> ELSE new_chunks,
         len |-> total_len(new_chunks)]

RECURSIVE chunkops_split_iter(_, _, _)
chunkops_split_iter(chunks, remaining_offset, left) ==
    IF chunks = <<>> THEN [l |-> left, r |-> <<>>]
    ELSE LET chunk_len == Head(chunks) IN
         IF remaining_offset > 0 /\ remaining_offset >= chunk_len
         THEN chunkops_split_iter(Tail(chunks), remaining_offset - chunk_len,
                                  Append(left, chunk_len))
         ELSE [l |-> Append(left, remaining_offset),
               r |-> <<chunk_len - remaining_offset>> \o Tail(chunks)]

chunkops_split_at(chunks, offset, own_length) ==
    LET o == slice_offsets(offset, 0, own_length)
        s == chunkops_split_iter(chunks, o[1], <<>>)
    IN  [l |-> IF s.l = <<>> THEN <<0>> ELSE s.l,
         r |-> IF s.r = <<>> THEN <<0>> ELSE s.r]

NullChunked_new(len) ==
    [dtype |-> "Null", length |-> as_IdxSize(len), chunks |-> <<len>>]

\* a series of another type, of which append reads the dtype and the length
Int32Chunked(len) == [dtype |-> "Int32", length |-> len, chunks |-> <<len>>]

\* `self.length += n` where the sum leaves IdxSize: the build decides
\* (overflow checks panic, otherwise the sum wraps)
add_assign(length, n) ==
    IF length + n < IdxSize_range THEN {Ok(length + n)}
    ELSE {Ok(as_IdxSize(length + n)), Panic("attempt to add with overflow")}

NullChunked_append_chunks_only(self, other) ==
    IF other.dtype # "Null"
    THEN {[self |-> self, result |-> Err("expected null dtype")]}
    ELSE {[self |-> [self EXCEPT !.chunks = @ \o other.chunks], result |-> Ok(<<>>)]}

NullChunked_append(self, other) ==
    IF other.dtype # "Null"
    THEN {[self |-> self, result |-> Err("expected null dtype")]}
    ELSE {IF sum.tag = "Panic"
          THEN [self |-> self, result |-> sum]
          ELSE [self |-> [self EXCEPT !.length = sum.val,
                                      !.chunks = @ \o other.chunks],
                result |-> Ok(<<>>)] :
            sum \in add_assign(self.length, as_IdxSize(other.length))}

NullChunked_append_owned(self, other) ==
    IF other.dtype # "Null"
    THEN {[self |-> self, result |-> Err("expected null dtype")]}
    ELSE {IF sum.tag = "Panic"
          THEN [self |-> self, result |-> sum]
          ELSE [self |-> [self EXCEPT !.length = sum.val,
                                      !.chunks = @ \o other.chunks],
                result |-> Ok(<<>>)] :
            sum \in add_assign(self.length, as_IdxSize(other.length))}

NullChunked_extend(self, other) ==
    [self |-> NullChunked_new(self.length + other.length), result |-> Ok(<<>>)]

NullChunked_slice(self, offset, length) ==
    LET c == chunkops_slice(self.chunks, offset, length, self.length) IN
    [dtype |-> "Null", length |-> as_IdxSize(c.len), chunks |-> c.chunks]

\* `.sum()` of IdxSize values: as add_assign, the build decides on overflow
sum_lengths(chunks) ==
    IF total_len(chunks) < IdxSize_range THEN {Ok(total_len(chunks))}
    ELSE {Ok(sum_IdxSize(chunks)), Panic("attempt to add with overflow")}

NullChunked_split_at(self, offset) ==
    LET c == chunkops_split_at(self.chunks, offset, self.length) IN
    {IF l.tag = "Panic" THEN l
     ELSE IF r.tag = "Panic" THEN r
     ELSE Ok([l |-> [dtype |-> "Null", length |-> l.val, chunks |-> c.l],
              r |-> [dtype |-> "Null", length |-> r.val, chunks |-> c.r]]) :
        l \in sum_lengths(c.l), r \in sum_lengths(c.r)}

in_range(s) == total_len(s.chunks) < IdxSize_range

\* the series append, append_owned and extend are handed
Others ==
    {NullChunked_new(len) : len \in NullLens} \cup {Int32Chunked(len) : len \in NullLens}
    \cup {nulls.other}

InitNulls ==
    /\ nulls \in {[on |-> TRUE, this |-> NullChunked_new(len),
                   other |-> NullChunked_new(0), fits |-> len < IdxSize_range,
                   ops |-> 0, last |-> [op |-> "new", result |-> Ok(<<>>)]] :
                    len \in NullLens \cup {IdxSize_range + 1}}
    /\ walker = NoCall /\ batch = NoCall /\ series = NoCall
    /\ no_pushdown

apart_from_nulls == <<pushdown_vars, walker, batch, series>>

mutated(op, other, r) ==
    [nulls EXCEPT !.this = r.self,
                  !.other = other,
                  !.fits = @ /\ in_range(r.self) /\ in_range(other)
                             /\ r.result.tag # "Panic",
                  !.ops = @ + 1,
                  !.last = [op |-> op, result |-> r.result, before |-> nulls.this]]

nulls_append ==
    /\ nulls.on
    /\ nulls.ops < MaxCalls
    /\ \E other \in Others :
        \E r \in NullChunked_append(nulls.this, other) :
            nulls' = mutated("append", other, r)
    /\ UNCHANGED apart_from_nulls

nulls_append_owned ==
    /\ nulls.on
    /\ nulls.ops < MaxCalls
    /\ \E other \in Others :
        \E r \in NullChunked_append_owned(nulls.this, other) :
            nulls' = mutated("append_owned", other, r)
    /\ UNCHANGED apart_from_nulls

nulls_extend ==
    /\ nulls.on
    /\ nulls.ops < MaxCalls
    /\ \E other \in Others :
        nulls' = mutated("extend", other, NullChunked_extend(nulls.this, other))
    /\ UNCHANGED apart_from_nulls

nulls_slice ==
    /\ nulls.on
    /\ nulls.ops < MaxCalls
    /\ \E offset \in Offsets, length \in NullLens :
        nulls' = mutated("slice", nulls.other,
                         [self |-> NullChunked_slice(nulls.this, offset, length),
                          result |-> Ok(<<>>)])
    /\ UNCHANGED apart_from_nulls

nulls_split_at ==
    /\ nulls.on
    /\ nulls.ops < MaxCalls
    /\ \E offset \in Offsets :
        \E s \in NullChunked_split_at(nulls.this, offset) :
            nulls' = IF s.tag = "Panic"
                     THEN mutated("split_at", nulls.other,
                                  [self |-> nulls.this, result |-> s])
                     ELSE mutated("split_at", s.val.r,
                                  [self |-> s.val.l, result |-> Ok(<<>>)])
    /\ UNCHANGED apart_from_nulls

NextNulls ==
    \/ nulls_append
    \/ nulls_append_owned
    \/ nulls_extend
    \/ nulls_slice
    \/ nulls_split_at

SpecNulls == InitNulls /\ [][NextNulls]_vars

(***************************************************************************)
(* arg_min / arg_max of polars-ops on an integer series                    *)
(* (crates/polars-ops/src/series/ops/arg_min_max.rs)                       *)
(*   A ChunkedArray is its chunks, each a sequence of Option<integer>,     *)
(*   and its sorted flag.  Indices count from 0 as in the source.          *)
(***************************************************************************)
MaxVals == 4

IntValues == {1, 2}

IsSorted == {"Not", "Ascending", "Descending"}

RECURSIVE flatten(_)
flatten(chunks) ==
    IF chunks = <<>> THEN <<>> ELSE Head(chunks) \o flatten(Tail(chunks))

ca_len(ca) == Len(flatten(ca.chunks))

arr_null_count(arr) == Cardinality({i \in 1..Len(arr) : is_none(arr[i])})

null_count(ca) == arr_null_count(flatten(ca.chunks))

\* Ok(the values) for a single chunk without nulls
cont_slice(ca) ==
    IF Len(ca.chunks) = 1 /\ arr_null_count(ca.chunks[1]) = 0
    THEN Ok([i \in 1..Len(ca.chunks[1]) |-> unwrap(ca.chunks[1][i])])
    ELSE Err("chunked array is not contiguous")

first_non_null(ca) ==
    LET v == flatten(ca.chunks)
        set == {i \in 1..Len(v) : is_some(v[i])}
    IN  IF set = {} THEN None ELSE Some((CHOOSE i \in set : \A j \in set : i <= j) - 1)

last_non_null(ca) ==
    LET v == flatten(ca.chunks)
        set == {i \in 1..Len(v) : is_some(v[i])}
    IN  IF set = {} THEN None ELSE Some((CHOOSE i \in set : \A j \in set : i >= j) - 1)

\* argminmax on a slice that is not empty: the first index of the extreme
argmin(vals) ==
    (CHOOSE i \in 1..Len(vals) :
        /\ \A j \in 1..Len(vals) : vals[i] <= vals[j]
        /\ \A j \in 1..(i - 1) : vals[j] > vals[i]) - 1

argmax(vals) ==
    (CHOOSE i \in 1..Len(vals) :
        /\ \A j \in 1..Len(vals) : vals[i] >= vals[j]
        /\ \A j \in 1..(i - 1) : vals[j] < vals[i]) - 1

\* arr.into_iter().enumerate().flat_map(non-null).reduce(keep the smaller)
RECURSIVE reduce_min(_, _, _)
reduce_min(arr, k, acc) ==
    IF k > Len(arr) THEN acc
    ELSE IF is_none(arr[k]) THEN reduce_min(arr, k + 1, acc)
    ELSE LET item == <<k - 1, unwrap(arr[k])>> IN
         reduce_min(arr, k + 1,
                    IF is_none(acc) THEN Some(item)
                    ELSE IF unwrap(acc)[2] > item[2] THEN Some(item) ELSE acc)

RECURSIVE reduce_max(_, _, _)
reduce_max(arr, k, acc) ==
    IF k > Len(arr) THEN acc
    ELSE IF is_none(arr[k]) THEN reduce_max(arr, k + 1, acc)
    ELSE LET item == <<k - 1, unwrap(arr[k])>> IN
         reduce_max(arr, k + 1,
                    IF is_none(acc) THEN Some(item)
                    ELSE IF unwrap(acc)[2] < item[2] THEN Some(item) ELSE acc)

arr_values(arr) == [i \in 1..Len(arr) |-> unwrap(arr[i])]

\* the fold over the chunks; acc is (index, value, offset)
RECURSIVE fold_min(_, _)
fold_min(chunks, acc) ==
    IF chunks = <<>> THEN acc
    ELSE LET arr == Head(chunks) IN
         IF Len(arr) = 0 THEN fold_min(Tail(chunks), acc)
         ELSE LET chunk_min == IF arr_null_count(arr) > 0
                               THEN reduce_min(arr, 1, None)
                               ELSE Some(<<argmin(arr_values(arr)),
                                           arr_values(arr)[argmin(arr_values(arr)) + 1]>>)
                  new_offset == acc[3] + Len(arr)
              IN  fold_min(Tail(chunks),
                    IF is_some(acc[1])
                    THEN IF is_some(chunk_min) /\ unwrap(chunk_min)[2] < unwrap(acc[2])
                         THEN <<Some(unwrap(chunk_min)[1] + acc[3]),
                                Some(unwrap(chunk_min)[2]), new_offset>>
                         ELSE <<acc[1], acc[2], new_offset>>
                    ELSE IF is_some(chunk_min)
                         THEN <<Some(unwrap(chunk_min)[1] + acc[3]),
                                Some(unwrap(chunk_min)[2]), new_offset>>
                         ELSE <<None, None, new_offset>>)

RECURSIVE fold_max(_, _)
fold_max(chunks, acc) ==
    IF chunks = <<>> THEN acc
    ELSE LET arr == Head(chunks) IN
         IF Len(arr) = 0 THEN fold_max(Tail(chunks), acc)
         ELSE LET chunk_max == IF arr_null_count(arr) > 0
                               THEN reduce_max(arr, 1, None)
                               ELSE Some(<<argmax(arr_values(arr)),
                                           arr_values(arr)[argmax(arr_values(arr)) + 1]>>)
                  new_offset == acc[3] + Len(arr)
              IN  fold_max(Tail(chunks),
                    IF is_some(acc[1])
                    THEN IF is_some(chunk_max) /\ unwrap(acc[2]) < unwrap(chunk_max)[2]
                         THEN <<Some(unwrap(chunk_max)[1] + acc[3]),
                                Some(unwrap(chunk_max)[2]), new_offset>>
                         ELSE <<acc[1], acc[2], new_offset>>
                    ELSE IF is_some(chunk_max)
                         THEN <<Some(unwrap(chunk_max)[1] + acc[3]),
                                Some(unwrap(chunk_max)[2]), new_offset>>
                         ELSE <<None, None, new_offset>>)

arg_min_numeric(ca) ==
    CASE ca.is_sorted_flag = "Ascending" -> first_non_null(ca)
      [] ca.is_sorted_flag = "Descending" -> last_non_null(ca)
      [] OTHER -> fold_min(ca.chunks, <<None, None, 0>>)[1]

arg_max_numeric(ca) ==
    CASE ca.is_sorted_flag = "Ascending" -> last_non_null(ca)
      [] ca.is_sorted_flag = "Descending" -> first_non_null(ca)
      [] OTHER -> fold_max(ca.chunks, <<None, None, 0>>)[1]

arg_min_numeric_slice(vals, is_sorted) ==
    CASE is_sorted = "Ascending" -> Some(0)
      [] is_sorted = "Descending" -> Some(Len(vals) - 1)
      [] OTHER -> Some(argmin(vals))

arg_max_numeric_slice(vals, is_sorted) ==
    CASE is_sorted = "Ascending" -> Some(Len(vals) - 1)
      [] is_sorted = "Descending" -> Some(0)
      [] OTHER -> Some(argmax(vals))

\* T is an integer type: the float branch of the dispatch is not taken
arg_max_numeric_dispatch(ca) ==
    IF null_count(ca) = ca_len(ca) THEN None
    ELSE IF cont_slice(ca).tag = "Ok"
    THEN arg_max_numeric_slice(cont_slice(ca).val, ca.is_sorted_flag)
    ELSE arg_max_numeric(ca)

arg_min_numeric_dispatch(ca) ==
    IF null_count(ca) = ca_len(ca) THEN None
    ELSE IF cont_slice(ca).tag = "Ok"
    THEN arg_min_numeric_slice(cont_slice(ca).val, ca.is_sorted_flag)
    ELSE arg_min_numeric(ca)

\* the non-null values in order, and the nulls all at one end
non_null(v) == SelectSeq(v, LAMBDA x : is_some(x))

nulls_at_an_end(v) ==
    \/ \A i \in 1..Len(v), j \in 1..Len(v) : (is_none(v[j]) /\ is_some(v[i])) => j < i
    \/ \A i \in 1..Len(v), j \in 1..Len(v) : (is_none(v[j]) /\ is_some(v[i])) => j > i

correctly_flagged(v, flag) ==
    LET w == non_null(v) IN
    CASE flag = "Ascending" ->
            nulls_at_an_end(v) /\ \A i \in 1..(Len(w) - 1) : unwrap(w[i]) <= unwrap(w[i + 1])
      [] flag = "Descending" ->
            nulls_at_an_end(v) /\ \A i \in 1..(Len(w) - 1) : unwrap(w[i]) >= unwrap(w[i + 1])
      [] OTHER -> TRUE

Arrays ==
    UNION {[1..n -> {None} \cup {Some(x) : x \in IntValues}] : n \in 0..MaxVals}

\* one chunk, or two chunks cut anywhere (a chunk may be empty)
Chunkings(v) ==
    {<<v>>} \cup {<<SubSeq(v, 1, p), SubSeq(v, p + 1, Len(v))>> : p \in 0..Len(v)}

IntSeries ==
    {[chunks |-> c, is_sorted_flag |-> flag] :
        c \in UNION {Chunkings(v) : v \in Arrays},
        flag \in IsSorted}

InitArg ==
    /\ series \in {[on |-> TRUE, ca |-> ca, calls |-> <<>>] :
                    ca \in {x \in IntSeries :
                                correctly_flagged(flatten(x.chunks), x.is_sorted_flag)}}
    /\ walker = NoCall /\ batch = NoCall /\ nulls = NoCall
    /\ no_pushdown

apart_from_series == <<pushdown_vars, walker, batch, nulls>>

arg_min ==
    /\ series.on
    /\ Len(series.calls) < 2
    /\ series' = [series EXCEPT !.calls =
                    Append(@, [fn |-> "arg_min",
                               result |-> arg_min_numeric_dispatch(series.ca)])]
    /\ UNCHANGED apart_from_series

arg_max ==
    /\ series.on
    /\ Len(series.calls) < 2
    /\ series' = [series EXCEPT !.calls =
                    Append(@, [fn |-> "arg_max",
                               result |-> arg_max_numeric_dispatch(series.ca)])]
    /\ UNCHANGED apart_from_series

NextArg ==
    \/ arg_min
    \/ arg_max

SpecArg == InitArg /\ [][NextArg]_vars

(***************************************************************************)
(* Vocabulary of the properties                                            *)
(***************************************************************************)
scan_kinds == {"DataFrameScan", "PythonScan", "Scan"}

\* the nodes of arena reachable from lp, lp itself excluded
RECURSIVE nodes_below(_, _)
nodes_below(lp, arena) ==
    UNION {{n} \cup nodes_below(arena[n], arena) : n \in RangeOf(get_inputs(lp))}

kinds_of(lp, arena) == {lp.kind} \cup {arena[n].kind : n \in nodes_below(lp, arena)}

\* the column names an expression reads
RECURSIVE expr_columns(_, _)
expr_columns(node, ea) ==
    IF ea[node].kind = "Column" THEN {ea[node].name}
    ELSE IF ea[node].kind = "BinaryExpr"
    THEN expr_columns(ea[node].left, ea) \cup expr_columns(ea[node].right, ea)
    ELSE {}

\* the column names an operator names: sort keys, predicate columns, distinct
\* subset, merge key
named_columns(lp, ea) ==
    IF lp.kind = "Sort"
    THEN UNION {expr_columns(lp.by_column[i], ea) : i \in 1..Len(lp.by_column)}
    ELSE IF lp.kind = "Filter" THEN expr_columns(lp.predicate, ea)
    ELSE IF lp.kind = "Distinct" /\ is_some(lp.subset) THEN RangeOf(unwrap(lp.subset))
    ELSE IF lp.kind = "MergeSorted" THEN {lp.key}
    ELSE {}

acc_names(ctx) == node_names(ctx.acc_projections, expr_arena)

finished(p) == pass = p /\ stack = <<>> /\ is_some(outcome)

finished_ok(p) == finished(p) /\ unwrap(outcome).tag = "Ok"

\* every scan at or below lp supplies the columns of `required` and those
\* named by the operators between lp and the scan
RECURSIVE closed(_, _, _)
closed(lp, arena, required) ==
    IF lp.kind \in scan_kinds
    THEN required \subseteq schema_names(IR_schema(lp, arena))
    ELSE \A n \in RangeOf(get_inputs(lp)) :
            closed(arena[n], arena, required \cup named_columns(lp, expr_arena))

closure_plan ==
    /\ entry.kind = "rule"
    /\ entry.ctx.acc_projections # <<>>
    /\ entry.ctx.projected_names
           \subseteq schema_names(IR_schema(plan.root, plan.arena))
    /\ kinds_of(plan.root, plan.arena) \subseteq
           scan_kinds \cup {"Sort", "Filter", "Distinct", "MergeSorted", "Invalid"}
    /\ Len(plan.arena) > 1

(***************************************************************************)
(* C1  Closure: after a pushdown entered with a non-empty set of requested *)
(* columns over a plan of Sort, Filter, Distinct and MergeSorted nodes     *)
(* above scans, the output schema of every scan contains every requested   *)
(* column and every column named by an operator above the scan.            *)
(***************************************************************************)
C1_Closure ==
    (closure_plan /\ finished(1)) =>
        /\ unwrap(outcome).tag = "Ok"
        /\ closed(unwrap(outcome).val, lp_arena, entry.ctx.projected_names)

\* a plan as a tree: every node with the trees of its inputs
RECURSIVE plan_tree(_, _)
plan_tree(lp, arena) ==
    [node |-> lp,
     inputs |-> [i \in 1..Len(get_inputs(lp)) |->
                    plan_tree(arena[get_inputs(lp)[i]], arena)]]

nodes_of(lp, arena) == {lp} \cup {arena[n] : n \in nodes_below(lp, arena)}

the_scan(arena) == arena[1]

narrowing_plan ==
    /\ entry.kind = "rule"
    /\ entry.ctx.projected_names = {"a"}
    /\ plan.root.kind = "Filter"
    /\ plan.root.input = 1
    /\ expr_columns(plan.root.predicate, ExprArena0) = {"b"}
    /\ the_scan(plan.arena).kind = "Scan"
    /\ Len(the_scan(plan.arena).file_info_schema) = 5

(***************************************************************************)
(* C3  Scan narrowing: a context requesting only a, reaching a Filter on b *)
(* above a file Scan of five columns, leaves the scan with the projection  *)
(* {a, b} and an output schema of exactly a and b, in every declared order *)
(* of the file schema.                                                     *)
(***************************************************************************)
C3_ScanNarrowing ==
    (narrowing_plan /\ finished(1)) =>
        /\ unwrap(outcome).tag = "Ok"
        /\ is_some(the_scan(lp_arena).projection)
        /\ RangeOf(unwrap(the_scan(lp_arena).projection)) = {"a", "b"}
        /\ is_some(the_scan(lp_arena).output_schema)
        /\ Len(unwrap(the_scan(lp_arena).output_schema)) = 2
        /\ schema_names(unwrap(the_scan(lp_arena).output_schema)) = {"a", "b"}

\* the frames of a rule and of the input it is pushing down
calls == {i \in 1..(Len(stack) - 1) : stack[i + 1].pc = "call"}

active(ctx) == ctx.acc_projections # <<>> \/ ctx.inner.is_count_star

names_in(ctx) == RangeOf(acc_names(ctx))

\* the names of the column nodes pushed down to one side
pushed_names(pushdown) ==
    {column_node_to_name(pushdown[i], expr_arena) : i \in 1..Len(pushdown)}

(***************************************************************************)
(* C4  Join routing: with the keys of both sides force-included and every  *)
(* accumulated column routed through join_push_down, each input gets       *)
(* exactly the keys and the accumulated columns that its schema contains,  *)
(* each once.  Joining L(id, x) with R(id, y) on id and selecting x gives  *)
(* the left input {id, x} and the right input {id}: y goes to neither.     *)
(***************************************************************************)
C4_JoinRouting ==
    (jn.on /\ jn.pc = "done") =>
        LET wanted == pushed_names(jn.acc_projections)
            left == pushed_names(jn.pushdown_left)
            right == pushed_names(jn.pushdown_right)
        IN /\ left = (pushed_names(jn.left_on) \cup wanted)
                        \cap schema_names(jn.schema_left)
           /\ right = (pushed_names(jn.right_on) \cup wanted)
                        \cap schema_names(jn.schema_right)
           /\ Cardinality(left) = Len(jn.pushdown_left)
           /\ Cardinality(right) = Len(jn.pushdown_right)
           /\ jn.names_left = left
           /\ jn.names_right = right
           /\ (/\ iter_names(jn.schema_left) = <<"id", "x">>
               /\ iter_names(jn.schema_right) = <<"id", "y">>
               /\ pushed_names(jn.left_on) = {"id"}
               /\ pushed_names(jn.right_on) = {"id"}
               /\ wanted = {"x"}) =>
                  /\ left = {"id", "x"}
                  /\ right = {"id"}

\* L(id, x) joined with R(id, y) on id, x selected, routing finished
C4_Witness ==
    /\ jn.on
    /\ jn.pc = "done"
    /\ iter_names(jn.schema_left) = <<"id", "x">>
    /\ iter_names(jn.schema_right) = <<"id", "y">>
    /\ pushed_names(jn.left_on) = {"id"}
    /\ pushed_names(jn.right_on) = {"id"}
    /\ pushed_names(jn.acc_projections) = {"x"}
    /\ jn.pushdown_left = <<1, 2>>
    /\ jn.pushdown_right = <<1>>
    /\ jn.routed = <<<<TRUE, FALSE>>>>

(***************************************************************************)
(* C5  Distinct forces full width: a Distinct without subset that receives *)
(* an active context hands its input a context containing every column of  *)
(* the input's schema; a Distinct with a subset hands its input the        *)
(* incoming columns plus exactly the subset columns.                       *)
(***************************************************************************)
C5_DistinctFullWidth ==
    \A i \in calls :
        LET p == stack[i]
            c == stack[i + 1]
        IN (p.lp.kind = "Distinct" /\ active(p.ctx_in)) =>
              IF is_none(p.lp.subset)
              THEN /\ schema_names(IR_schema(c.lp, lp_arena)) \subseteq names_in(c.ctx)
                   /\ schema_names(IR_schema(c.lp, lp_arena))
                        \subseteq c.ctx.projected_names
              ELSE /\ names_in(c.ctx)
                        = names_in(p.ctx_in) \cup RangeOf(unwrap(p.lp.subset))
                   /\ c.ctx.projected_names
                        = p.ctx_in.projected_names \cup RangeOf(unwrap(p.lp.subset))

\* a Distinct without subset, asked for a only, pushes {a, b, c} into an
\* input with schema (a, b, c)
C5_Witness ==
    \E i \in calls :
        /\ stack[i].lp.kind = "Distinct"
        /\ is_none(stack[i].lp.subset)
        /\ names_in(stack[i].ctx_in) = {"a"}
        /\ iter_names(IR_schema(stack[i + 1].lp, lp_arena)) = <<"a", "b", "c">>
        /\ names_in(stack[i + 1].ctx) = {"a", "b", "c"}

\* the columns a rule adds for its own node: sort keys, predicate columns,
\* distinct columns, merge key
own_columns(p, c) ==
    IF p.lp.kind = "Distinct" /\ is_none(p.lp.subset)
    THEN schema_names(IR_schema(c.lp, lp_arena))
    ELSE named_columns(p.lp, expr_arena)

(***************************************************************************)
(* C9  Pushdown gating: at a Sort, Filter, Distinct or MergeSorted node,   *)
(* if the incoming context has no accumulated column and its is_count_star *)
(* flag is off, the context handed to the input is the incoming one,       *)
(* unchanged; otherwise it is the incoming one extended with exactly the   *)
(* operator's own columns.                                                 *)
(***************************************************************************)
C9_Gating ==
    \A i \in calls :
        LET p == stack[i]
            c == stack[i + 1]
        IN p.lp.kind \in {"Sort", "Filter", "Distinct", "MergeSorted"} =>
              IF ~active(p.ctx_in)
              THEN c.ctx = p.ctx_in /\ c.ctx.acc_projections = <<>>
              ELSE /\ names_in(c.ctx) = names_in(p.ctx_in) \cup own_columns(p, c)
                   /\ c.ctx.projected_names
                        = p.ctx_in.projected_names \cup own_columns(p, c)
                   /\ Len(c.ctx.acc_projections) = Cardinality(names_in(c.ctx))
                   /\ SubSeq(c.ctx.acc_projections, 1, Len(p.ctx_in.acc_projections))
                        = p.ctx_in.acc_projections
                   /\ c.ctx.inner = p.ctx_in.inner

\* a Sort reached with no column but the count-star flag adds its keys, and
\* a Filter reached with an empty context adds nothing
C9_Witness ==
    \E i \in calls :
        /\ stack[i].lp.kind = "Sort"
        /\ stack[i].ctx_in.acc_projections = <<>>
        /\ stack[i].ctx_in.inner.is_count_star
        /\ names_in(stack[i + 1].ctx) = {"b", "c"}

C9_WitnessInactive ==
    \E i \in calls :
        /\ stack[i].lp.kind = "Filter"
        /\ ~active(stack[i].ctx_in)
        /\ stack[i + 1].ctx.acc_projections = <<>>

(***************************************************************************)
(* C10  Sibling isolation: the context with which an input of MergeSorted  *)
(* or of a node handled by no_pushdown_restart_opt is pushed down is       *)
(* determined by the parent's incoming context and the operator's own      *)
(* column; what was accumulated while an earlier input was processed does  *)
(* not enter it.                                                           *)
(***************************************************************************)
C10_SiblingIsolation ==
    \A i \in calls :
        LET p == stack[i]
            c == stack[i + 1]
        IN /\ p.lp.kind = "MergeSorted" =>
                /\ acc_names(c.ctx)
                     = acc_names(p.ctx_in)
                         \o (IF active(p.ctx_in) /\ p.lp.key \notin names_in(p.ctx_in)
                             THEN <<p.lp.key>> ELSE <<>>)
                /\ c.ctx.projected_names = RangeOf(acc_names(c.ctx))
                /\ c.ctx.inner = p.ctx_in.inner
           /\ p.lp.kind = "Other" =>
                c.ctx = ProjectionContext(<<>>, {}, p.ctx_in.inner)

\* the second input of a MergeSorted is called with an empty context after
\* the scan that is its first input has synthesized a count-star column
C10_Witness ==
    \E i \in calls :
        /\ stack[i].lp.kind = "MergeSorted"
        /\ Len(stack[i].done) = 1
        /\ stack[i + 1].slot = stack[i].lp.input_right
        /\ is_count_star
        /\ stack[i + 1].ctx.acc_projections = <<>>
        /\ lp_arena[stack[i].lp.input_left].kind \in scan_kinds
        /\ is_some(lp_arena[stack[i].lp.input_left].output_schema)

\* the schema a scan node declares, and the columns a scan node projects
declared_schema(lp) == IF lp.kind = "Scan" THEN lp.file_info_schema ELSE lp.schema

projected_columns(lp) ==
    IF lp.kind = "Scan" THEN lp.projection
    ELSE IF lp.kind = "PythonScan" THEN lp.with_columns
    ELSE IF is_some(lp.output_schema) THEN Some(iter_names(unwrap(lp.output_schema)))
    ELSE None

output_names(lp) ==
    IF is_some(lp.output_schema) THEN Some(iter_names(unwrap(lp.output_schema)))
    ELSE None

cheap_type(dt) ==
    dt \in {"Null", "Int64", "UInt32", "Float64", "Boolean", "Date", "Datetime"}

\* for three columns: the column at position 1 if its type is cheap, else the
\* column at position 2 (the first cheap one after position 0, or the last)
synthesized_of_three(schema) ==
    IF cheap_type(schema[2].dtype) THEN schema[2].name ELSE schema[3].name

\* pushdown of a single scan of three columns, no row index, with
\* is_count_star set and nothing requested from above
count_star_case ==
    /\ is_count_star
    /\ entry.ctx.acc_projections = <<>>
    /\ plan.root.kind \in scan_kinds
    /\ Len(declared_schema(plan.root)) = 3
    /\ plan.root.kind = "Scan" => is_none(plan.root.row_index)

cached_nodes ==
    UNION {nodes_below(lp, plan.arena) :
             lp \in {l \in nodes_of(plan.root, plan.arena) : l.kind = "Cache"}}

(***************************************************************************)
(* C7  Cache isolation: push_down on a Cache never visits or changes the   *)
(* nodes below the cache and never changes the Cache node; with nothing    *)
(* accumulated it returns the Cache node itself, otherwise a new simple    *)
(* projection over exactly the accumulated columns whose input is the      *)
(* unmodified Cache node.                                                  *)
(***************************************************************************)
C7_CacheIsolation ==
    /\ \A n \in cached_nodes :
          /\ lp_arena[n] = plan.arena[n]
          /\ \A i \in 1..Len(stack) : stack[i].slot # n
    /\ \A i \in 1..Len(stack) :
          LET f == stack[i] IN
          (f.lp.kind = "Cache" /\ f.pc = "ret") =>
              /\ f.res.tag = "Ok"
              /\ IF f.ctx_in.acc_projections = <<>>
                 THEN f.res.val = f.lp
                 ELSE /\ f.res.val.kind = "SimpleProjection"
                      /\ iter_names(f.res.val.columns) = acc_names(f.ctx_in)
                      /\ lp_arena[f.res.val.input] = f.lp
                      /\ f.res.val.input > Len(plan.arena)

\* a Cache over (a, b, c) asked for a only has returned a projection of a
C7_Witness ==
    \E i \in 1..Len(stack) :
        /\ stack[i].lp.kind = "Cache"
        /\ stack[i].pc = "ret"
        /\ acc_names(stack[i].ctx_in) = <<"a">>
        /\ stack[i].res.tag = "Ok"
        /\ stack[i].res.val.kind = "SimpleProjection"
        /\ iter_names(IR_schema(stack[i].lp, lp_arena)) = <<"a", "b", "c">>

(***************************************************************************)
(* C8  In every ProjectionContext of a running push_down, projected_names  *)
(* is exactly the set of names of the column nodes in acc_projections, and *)
(* the two have the same size.                                             *)
(***************************************************************************)
C8_NamesMatchAcc ==
    \A i \in 1..Len(stack) :
        /\ stack[i].ctx.projected_names = names_in(stack[i].ctx)
        /\ Cardinality(stack[i].ctx.projected_names)
             = Len(stack[i].ctx.acc_projections)

\* the context inputs of the ExtContext nodes of the input plan
context_nodes ==
    UNION {RangeOf(lp.contexts) :
             lp \in {l \in nodes_of(plan.root, plan.arena) : l.kind = "ExtContext"}}

\* the frames of returned push_down calls on a node of one kind
returned(kind) ==
    {i \in 1..Len(stack) : stack[i].lp.kind = kind /\ stack[i].pc = "ret"}

(***************************************************************************)
(* C11 as claimed  ExtContext recursion: push_down on an ExtContext pushes *)
(* down into the main input and into each of the context inputs, and emits *)
(* no projection node for the locally resolved columns.                    *)
(***************************************************************************)
C11_Claimed ==
    \A i \in returned("ExtContext") :
        stack[i].res.tag = "Ok" =>
            /\ stack[i].res.val.kind = "ExtContext"
            /\ stack[i].lp.input \in RangeOf(stack[i].done)
            /\ RangeOf(stack[i].lp.contexts) \subseteq RangeOf(stack[i].done)

(***************************************************************************)
(* C11  ExtContext recursion, as the code has it: push_down on an          *)
(* ExtContext pushes down into the main input only, with the incoming      *)
(* columns that the input's schema has (none if the schema has as many     *)
(* columns as were accumulated); the context inputs are never visited and  *)
(* their nodes stay as they were; the columns resolved locally are         *)
(* discarded: the node returned is the ExtContext, not a projection.       *)
(***************************************************************************)
C11_ExtContext ==
    /\ \A n \in context_nodes :
          /\ lp_arena[n] = plan.arena[n]
          /\ \A i \in 1..Len(stack) : stack[i].slot # n
    /\ \A i \in calls :
          stack[i].lp.kind = "ExtContext" =>
              LET f == stack[i]
                  g == stack[i + 1]
                  acc == f.ctx_in.acc_projections
                  down == IR_schema(g.lp, lp_arena)
                  here(node) == expr_arena[node].name \in schema_names(down)
                  pushed == IF Len(down) = Len(acc) THEN <<>>
                            ELSE SelectSeq(acc, here)
                  local == IF Len(down) = Len(acc) THEN acc
                           ELSE SelectSeq(acc, LAMBDA node : ~here(node))
              IN /\ g.slot = f.lp.input
                 /\ g.ctx_in.acc_projections = pushed
                 /\ g.ctx_in.projected_names =
                        {expr_arena[pushed[k]].name : k \in 1..Len(pushed)}
                 /\ g.ctx_in.inner = f.ctx_in.inner
                 /\ f.local = local
    /\ \A i \in returned("ExtContext") :
          stack[i].res.tag = "Ok" =>
              /\ stack[i].res.val.kind = "ExtContext"
              /\ stack[i].res.val.input = stack[i].lp.input
              /\ stack[i].res.val.contexts = stack[i].lp.contexts
              /\ stack[i].done = <<stack[i].lp.input>>

\* an ExtContext has returned although the split kept columns back
C11_Witness ==
    \E i \in returned("ExtContext") :
        /\ stack[i].res.tag = "Ok"
        /\ stack[i].ctx_in.acc_projections # <<>>
        /\ stack[i].local # <<>>
        /\ stack[i].lp.contexts # <<>>
        /\ stack[i].res.val.kind = "ExtContext"

\* an anonymous scan whose function does not permit projection pushdown
skipped_scan(lp) ==
    lp.kind = "Scan" /\ lp.scan_type = FileScanIR("Anonymous", FALSE)

virtual_columns(lp) ==
    (IF is_some(lp.row_index) THEN {unwrap(lp.row_index)} ELSE {})
        \cup (IF is_some(lp.include_file_paths)
              THEN {unwrap(lp.include_file_paths)} ELSE {})

(***************************************************************************)
(* C13  After push_down on a file Scan that permits projection pushdown,   *)
(* projection is None exactly when output_schema is None, both are None    *)
(* exactly when nothing was accumulated and is_count_star is off, and      *)
(* otherwise the names of output_schema are those of projection plus the   *)
(* accumulated row-index and file-path columns.                            *)
(***************************************************************************)
C13_ProjectionOutput ==
    \A i \in returned("Scan") :
        (do_optimization(stack[i].lp.scan_type) /\ stack[i].res.tag = "Ok") =>
            LET r == stack[i].res.val
                accumulated == names_in(stack[i].ctx_in)
            IN /\ is_none(r.projection) <=> is_none(r.output_schema)
               /\ is_none(r.projection) <=>
                      (stack[i].ctx_in.acc_projections = <<>> /\ ~is_count_star)
               /\ is_some(r.projection) =>
                      schema_names(unwrap(r.output_schema)) =
                          RangeOf(unwrap(r.projection))
                              \cup (accumulated \cap virtual_columns(stack[i].lp))

\* a configured virtual column that the output schema `out` leaves out
culled(setting, out) ==
    /\ is_some(setting)
    /\ is_some(out)
    /\ unwrap(setting) \notin schema_names(unwrap(out))

(***************************************************************************)
(* C14  Virtual-column culling: after push_down on a file Scan, a          *)
(* configured row-index (file-path) column that the final output_schema    *)
(* leaves out is removed from the input file schema, the other columns     *)
(* keeping their order, and its setting is None; otherwise schema and      *)
(* setting are as they were.  So a virtual column configured in the result *)
(* is in its output_schema whenever that is Some.                          *)
(***************************************************************************)
C14_Culling ==
    \A i \in returned("Scan") :
        stack[i].res.tag = "Ok" =>
            LET lp == stack[i].lp
                r == stack[i].res.val
                out == r.output_schema
                gone == (IF culled(lp.row_index, out)
                         THEN {unwrap(lp.row_index)} ELSE {})
                        \cup (IF culled(lp.include_file_paths, out)
                              THEN {unwrap(lp.include_file_paths)} ELSE {})
            IN /\ r.file_info_schema =
                      SelectSeq(lp.file_info_schema, LAMBDA f : f.name \notin gone)
               /\ r.row_index =
                      IF culled(lp.row_index, out) THEN None ELSE lp.row_index
               /\ r.include_file_paths =
                      IF culled(lp.include_file_paths, out)
                      THEN None ELSE lp.include_file_paths
               /\ is_some(out) =>
                      virtual_columns(r) \subseteq schema_names(unwrap(out))

\* of a row index and a file-path column, the first was culled, the second kept
C14_Witness ==
    \E i \in returned("Scan") :
        /\ stack[i].res.tag = "Ok"
        /\ stack[i].lp.row_index = Some("idx")
        /\ stack[i].lp.include_file_paths = Some("path")
        /\ stack[i].res.val.row_index = None
        /\ stack[i].res.val.include_file_paths = Some("path")
        /\ iter_names(stack[i].lp.file_info_schema) = <<"idx", "a", "b", "c", "path">>
        /\ iter_names(stack[i].res.val.file_info_schema) = <<"a", "b", "c", "path">>

\* a plan of Sort, Filter, Distinct and MergeSorted nodes above scans, entered
\* with a context that names z, a column of no scan
error_plan ==
    /\ kinds_of(plan.root, plan.arena) \subseteq
           scan_kinds \cup {"Sort", "Filter", "Distinct", "MergeSorted", "Invalid"}
    /\ "z" \in RangeOf(node_names(entry.ctx.acc_projections, ExprArena0))

(***************************************************************************)
(* C15  Error propagation: when the context that reaches a scan of any     *)
(* kind names a column that the scan's schema does not have, the scan's    *)
(* push_down returns an error (no panic, no Ok), and through any chain of  *)
(* Sort, Filter, Distinct and MergeSorted nodes that error is the value    *)
(* returned at the top.                                                    *)
(***************************************************************************)
C15_ErrorPropagation ==
    /\ \A i \in 1..Len(stack) :
          (/\ stack[i].lp.kind \in scan_kinds
           /\ stack[i].pc = "ret"
           /\ ~(names_in(stack[i].ctx_in)
                   \subseteq schema_names(declared_schema(stack[i].lp)))) =>
              stack[i].res.tag = "Err"
    /\ (error_plan /\ finished(1)) => unwrap(outcome) = Err("z")

\* the accumulated columns already routed whose name no input of the join has
routed_absent ==
    {i \in 1..Len(jn.routed) :
        /\ ~check_input_column_node(jn.acc_projections[i], jn.schema_left, expr_arena)
        /\ ~check_input_column_node(jn.acc_projections[i], jn.schema_right, expr_arena)}

(***************************************************************************)
(* C16  A column whose name is in neither the left nor the right schema    *)
(* fails loudly in join_push_down: no call for such a column returns       *)
(* normally with nothing pushed to either side.  (routed holds the pair    *)
(* that each call of join_push_down returned.)                             *)
(***************************************************************************)
C16_FailsLoudly ==
    jn.on => \A i \in routed_absent : jn.routed[i] # <<FALSE, FALSE>>

\* how often the run has done op on the slot n
count(op, n) == Cardinality({k \in 1..Len(log) : log[k] = Event(op, n)})

\* the slots reachable from lp through inputs and contexts
RECURSIVE reachable(_, _)
reachable(lp, arena) ==
    LET below == RangeOf(get_inputs(lp))
                    \cup (IF lp.kind = "ExtContext" THEN RangeOf(lp.contexts) ELSE {})
    IN UNION {{n} \cup reachable(arena[n], arena) : n \in below}

ended == stack = <<>> /\ is_some(outcome)

(***************************************************************************)
(* C17  Take/replace protocol: a slot is replaced only after it was taken  *)
(* and at most once; a slot taken and not yet replaced holds the Invalid   *)
(* placeholder, also after an input's push_down has failed, so no partial  *)
(* result is ever written; when the run returns Ok every slot taken has    *)
(* been replaced exactly once and no slot reachable from the returned root *)
(* holds the placeholder.                                                  *)
(***************************************************************************)
C17_TakeReplace ==
    /\ \A n \in 1..Len(lp_arena) :
          /\ count("replace", n) <= count("take", n)
          /\ count("replace", n) <= 1
          /\ count("take", n) > count("replace", n) => lp_arena[n] = Invalid
    /\ \A i \in 1..Len(stack) :
          stack[i].slot # 0 =>
              /\ count("take", stack[i].slot) = 1
              /\ count("replace", stack[i].slot) = 0
    /\ (ended /\ unwrap(outcome).tag = "Ok") =>
          /\ \A n \in 1..Len(lp_arena) :
                count("take", n) >= 1 => count("replace", n) = 1
          /\ \A n \in reachable(unwrap(outcome).val, lp_arena) :
                lp_arena[n] # Invalid
    /\ (ended /\ unwrap(outcome).tag = "Err") =>
          \A n \in 1..Len(lp_arena) :
              count("take", n) >= 1 =>
                  \/ count("replace", n) = 1
                  \/ lp_arena[n] = Invalid

\* a run has returned Ok after taking and replacing three slots
C17_Witness ==
    /\ ended
    /\ unwrap(outcome).tag = "Ok"
    /\ Cardinality({n \in 1..Len(lp_arena) :
                      count("take", n) = 1 /\ count("replace", n) = 1}) >= 3

\* a run has returned an error raised two levels down: both slots on the path
\* hold the placeholder
C17_WitnessError ==
    /\ ended
    /\ unwrap(outcome).tag = "Err"
    /\ Cardinality({n \in 1..Len(lp_arena) :
                      /\ count("take", n) = 1
                      /\ count("replace", n) = 0
                      /\ lp_arena[n] = Invalid}) = 2

\* the last call of one of the accumulator utilities
last_call(fn) == call.on /\ is_some(call.last) /\ unwrap(call.last).fn = fn

(***************************************************************************)
(* C18  add_str_to_accumulated(name, ctx) changes nothing (acc_projections,*)
(* projected_names, expression arena) when has_pushed_down is false or     *)
(* name is already in projected_names; otherwise it appends exactly one    *)
(* column node for name at the end of acc_projections and adds name to     *)
(* projected_names.                                                        *)
(***************************************************************************)
C18_AddStr ==
    last_call("add_str_to_accumulated") =>
        LET c == unwrap(call.last)
            before == c.ctx
            after == call.ctx
        IN IF ~active(before) \/ c.name \in before.projected_names
           THEN /\ after = before
                /\ expr_arena = c.expr_arena
           ELSE /\ Len(after.acc_projections) = Len(before.acc_projections) + 1
                /\ SubSeq(after.acc_projections, 1, Len(before.acc_projections))
                       = before.acc_projections
                /\ expr_arena[after.acc_projections[Len(after.acc_projections)]]
                       = Column(c.name)
                /\ after.projected_names = before.projected_names \cup {c.name}
                /\ after.inner = before.inner

\* d was added at the end of a context that held b and a
C18_Witness ==
    /\ last_call("add_str_to_accumulated")
    /\ unwrap(call.last).name = "d"
    /\ node_names(unwrap(call.last).ctx.acc_projections, expr_arena) = <<"b", "a">>
    /\ acc_names(call.ctx) = <<"b", "a", "d">>

\* with pushdown not active a call left the context empty
C18_WitnessInactive ==
    /\ last_call("add_str_to_accumulated")
    /\ ~active(unwrap(call.last).ctx)
    /\ call.ctx = DefaultContext

\* the plan that the current call of optimize or push_down was given
run_plan ==
    IF pass = 2
    THEN [root |-> unwrap(first).res.val, arena |-> unwrap(first).lp_arena]
    ELSE plan

\* the node that the current call was given in slot n (0: the plan itself)
run_node(n) == IF n = 0 THEN run_plan.root ELSE run_plan.arena[n]

\* the positions of the log where push_down was entered
pushes == {k \in 1..Len(log) : log[k].op = "push_down"}

\* the slots below the node the push_down at position k was called on
below(k) == nodes_below(run_node(log[k].node), run_plan.arena)

visit_order ==
    /\ \A n \in 0..Len(lp_arena) : count("push_down", n) <= 1
    /\ \A k \in pushes :
          \/ k = 1 /\ log[k].node = 0
          \/ \E j \in pushes :
                /\ j < k
                /\ log[k].node \in RangeOf(get_inputs(run_node(log[j].node)))
    /\ \A k, m, d \in pushes :
          (k < m /\ m < d /\ log[d].node \in below(k)) => log[m].node \in below(k)
    /\ \A k \in pushes :
          \A j \in pushes :
              (run_node(log[j].node).kind = "Cache") => log[k].node \notin below(j)

(***************************************************************************)
(* C19  optimize terminates: a call that has started ends.  During one     *)
(* call push_down is entered at most once on each node, on a node only     *)
(* after it was entered on the node's parent, and once it has left the     *)
(* nodes below a node it does not come back to them (top-down,             *)
(* depth-first); it is not entered on a node below a Cache.                *)
(***************************************************************************)
C19_Traversal == [](visit_order) /\ ((stack # <<>>) ~> ended)

\* a call has ended after push_down was entered on a merge, then on
\* everything below its left input, then on its right input
C19_Witness ==
    /\ ended
    /\ \E k, m, d \in pushes :
          /\ run_node(log[k].node).kind = "MergeSorted"
          /\ k < m /\ m < d
          /\ log[m].node \in nodes_below(run_node(run_node(log[k].node).input_left), run_plan.arena)
          /\ log[d].node = run_node(log[k].node).input_right

\* a call has ended after push_down was entered on a Cache and on no node
\* below it
C19_WitnessCache ==
    /\ ended
    /\ \E k \in pushes :
          /\ run_node(log[k].node).kind = "Cache"
          /\ below(k) # {}
          /\ \A n \in below(k) : count("push_down", n) = 0

\* the members of acc that are in the set nodes, in the order of acc
kept(acc, nodes) == SelectSeq(acc, LAMBDA n : n \in nodes)

(***************************************************************************)
(* C20  split_acc_projections returns (pushed, local, names): pushed and   *)
(* local together hold every input column node exactly once, each in the   *)
(* order of the input; names is the set of the names of pushed.  When the  *)
(* schema does not expand and the down schema has as many columns as there *)
(* are accumulated columns, pushed and names are empty and all is local;   *)
(* otherwise pushed is the accumulated columns whose name is in the down   *)
(* schema.  The context that pushdown_and_assign_check_schema hands to the *)
(* input is (pushed, names) and names only columns of the input's schema.  *)
(***************************************************************************)
C20_Split ==
    last_call("split_acc_projections") =>
        LET c == unwrap(call.last)
            acc == c.acc_projections
            pushed == c.result.acc_projections
            local == c.result.local_projections
            names == c.result.names
            down == schema_names(c.down_schema)
        IN /\ RangeOf(pushed) \cap RangeOf(local) = {}
           /\ RangeOf(pushed) \cup RangeOf(local) = RangeOf(acc)
           /\ Len(pushed) + Len(local) = Len(acc)
           /\ pushed = kept(acc, RangeOf(pushed))
           /\ local = kept(acc, RangeOf(local))
           /\ names = {expr_arena[n].name : n \in RangeOf(pushed)}
           /\ IF ~c.expands_schema /\ Len(c.down_schema) = Len(acc)
              THEN pushed = <<>> /\ names = {} /\ local = acc
              ELSE pushed = kept(acc, {n \in RangeOf(acc) : expr_arena[n].name \in down})
           /\ c.child.acc_projections = pushed
           /\ c.child.projected_names = names
           /\ c.child.projected_names \subseteq down
           /\ \A i \in 1..Len(c.child.acc_projections) :
                 expr_arena[c.child.acc_projections[i]].name \in down

\* three accumulated columns were split over the schema (b, d): b and d are
\* pushed, the third stays local
C20_Witness ==
    /\ last_call("split_acc_projections")
    /\ Len(unwrap(call.last).acc_projections) = 3
    /\ Len(unwrap(call.last).result.acc_projections) = 2
    /\ Len(unwrap(call.last).result.local_projections) = 1
    /\ unwrap(call.last).result.names = {"b", "d"}

\* as many accumulated columns as the schema has, one of them not of the
\* schema: everything stays local
C20_WitnessAllLocal ==
    /\ last_call("split_acc_projections")
    /\ ~unwrap(call.last).expands_schema
    /\ Len(unwrap(call.last).acc_projections) = 2
    /\ Len(unwrap(call.last).down_schema) = 2
    /\ \E i \in 1..2 :
          expr_arena[unwrap(call.last).acc_projections[i]].name
              \notin schema_names(unwrap(call.last).down_schema)
    /\ unwrap(call.last).result.local_projections = unwrap(call.last).acc_projections

\* one side of a join is consistent: no name twice in the list, the name set
\* is the names of the list, every name is a column of the side's schema
side_consistent(pushdown, names, schema) ==
    /\ Cardinality(pushed_names(pushdown)) = Len(pushdown)
    /\ names = pushed_names(pushdown)
    /\ names \subseteq schema_names(schema)

\* the name of the column that the next call of join_push_down is given
routed_name == column_node_to_name(jn.acc_projections[Len(jn.routed) + 1], expr_arena)

\* what a call of join_push_down did, the state before it against the state
\* after it
join_push_down_step ==
    (jn.on /\ jn.pc = "acc" /\ jn'.routed # jn.routed) =>
        LET flags == jn'.routed[Len(jn'.routed)]
            appended == \/ Len(jn'.pushdown_left) > Len(jn.pushdown_left)
                        \/ Len(jn'.pushdown_right) > Len(jn.pushdown_right)
        IN /\ flags[1] = appended
           /\ flags[2] = (routed_name \in jn.names_left \cup jn.names_right)
           /\ SubSeq(jn'.pushdown_left, 1, Len(jn.pushdown_left)) = jn.pushdown_left
           /\ SubSeq(jn'.pushdown_right, 1, Len(jn.pushdown_right)) = jn.pushdown_right
           /\ (routed_name \in schema_names(jn.schema_left)
                  \cap schema_names(jn.schema_right)) =>
                 /\ routed_name \in jn'.names_left
                 /\ routed_name \in jn'.names_right

(***************************************************************************)
(* C21  After any sequence of join_push_down calls that starts from        *)
(* consistent sides, each side's pushdown list holds no name twice, its    *)
(* name set is the names of its list, and every name of the left (right)   *)
(* list is a column of the left (right) schema; a name of both schemas is  *)
(* recorded on both sides; the first flag returned is true exactly when    *)
(* the call appended to a list, the second exactly when the name was       *)
(* recorded on some side before the call.                                  *)
(***************************************************************************)
C21_JoinSides ==
    /\ [](jn.on =>
            /\ side_consistent(jn.pushdown_left, jn.names_left, jn.schema_left)
            /\ side_consistent(jn.pushdown_right, jn.names_right, jn.schema_right))
    /\ [][join_push_down_step]_vars

\* x is the left key and a column of the right input: the call for x
\* appended it to the right list only, and said that x was recorded
C21_Witness ==
    /\ jn.on
    /\ jn.left_on = <<2>>
    /\ Len(jn.routed) >= 1
    /\ jn.acc_projections[Len(jn.routed)] = 2
    /\ jn.routed[Len(jn.routed)] = <<TRUE, TRUE>>
    /\ 2 \in RangeOf(jn.pushdown_right)

\* the leaves of the expression that a call of add_expr_to_accumulated has to
\* append: those whose name is not in names and that no earlier leaf has
first_met(leaves, names) ==
    LET name(i) == column_node_to_name(leaves[i], expr_arena)
        fresh(i) == name(i) \notin names /\ \A j \in 1..(i - 1) : name(j) # name(i)
        at == SelectSeq([i \in 1..Len(leaves) |-> i], fresh)
    IN [k \in 1..Len(at) |-> leaves[at[k]]]

(***************************************************************************)
(* C22  add_expr_to_accumulated, over any sequence of calls, keeps every   *)
(* entry of acc_projections in its place, appends each leaf column of the  *)
(* expression whose name is not yet in projected_names once, in the order  *)
(* the leaves are met, and nothing for a name already present; so          *)
(* acc_projections never holds a column name twice.                        *)
(***************************************************************************)
C22_AddExpr ==
    /\ call.on =>
          /\ Cardinality(RangeOf(acc_names(call.ctx))) = Len(call.ctx.acc_projections)
          /\ call.ctx.projected_names = RangeOf(acc_names(call.ctx))
    /\ last_call("add_expr_to_accumulated") =>
          LET c == unwrap(call.last)
              before == c.ctx
              after == call.ctx
              leaves == aexpr_to_column_nodes_iter(c.expr, expr_arena)
          IN /\ after.acc_projections
                    = before.acc_projections \o first_met(leaves, before.projected_names)
             /\ after.projected_names
                    = before.projected_names \cup RangeOf(node_names(leaves, expr_arena))
             /\ after.inner = before.inner

\* d + ((b + c) + b) was added to a context that held b and a: d and c were
\* appended, in this order, and b was not
C22_Witness ==
    /\ last_call("add_expr_to_accumulated")
    /\ unwrap(call.last).expr = NodeOf(BinaryExpr(4, 12))
    /\ node_names(unwrap(call.last).ctx.acc_projections, expr_arena) = <<"b", "a">>
    /\ acc_names(call.ctx) = <<"b", "a", "d", "c">>

\* position k of the schema is the one a count-star query has to read
cheapest(schema, k) ==
    IF Len(schema) = 1 THEN k = 1
    ELSE /\ k \in 2..Len(schema)
         /\ \A j \in 2..(k - 1) : ~cheap_type(schema[j].dtype)
         /\ cheap_type(schema[k].dtype) \/ k = Len(schema)

(***************************************************************************)
(* C23  process_count_star_at_scan changes the context only when           *)
(* acc_projections is empty and the schema has a column; it then adds one  *)
(* column to acc_projections and to projected_names: the only column of a  *)
(* 1-column schema; for 2 or more columns the first column at position 1   *)
(* or later whose type is null, primitive numeric, boolean or temporal,    *)
(* else the last column.  Position 0 is never chosen when the schema has 2 *)
(* or more columns.                                                        *)
(***************************************************************************)
C23_CountStarColumn ==
    last_call("process_count_star_at_scan") =>
        LET c == unwrap(call.last)
            before == c.ctx
            after == call.ctx
        IN IF before.acc_projections # <<>> \/ c.schema = <<>>
           THEN after = before /\ expr_arena = c.expr_arena
           ELSE /\ Len(after.acc_projections) = 1
                /\ \E k \in 1..Len(c.schema) :
                      /\ cheapest(c.schema, k)
                      /\ expr_arena[after.acc_projections[1]] = Column(c.schema[k].name)
                      /\ after.projected_names
                             = before.projected_names \cup {c.schema[k].name}
                      /\ Len(c.schema) >= 2 => k # 1
                /\ after.inner = before.inner

\* (a: Int64, b: String, d: Boolean) and nothing accumulated: d was added
C23_Witness ==
    /\ last_call("process_count_star_at_scan")
    /\ unwrap(call.last).ctx.acc_projections = <<>>
    /\ Len(unwrap(call.last).schema) = 3
    /\ [i \in 1..3 |-> unwrap(call.last).schema[i].dtype] = <<"Int64", "String", "Boolean">>
    /\ acc_names(call.ctx) = <<"d">>

\* no cheap column after position 0: the last column was added
C23_WitnessLast ==
    /\ last_call("process_count_star_at_scan")
    /\ unwrap(call.last).ctx.acc_projections = <<>>
    /\ Len(unwrap(call.last).schema) = 3
    /\ [i \in 1..3 |-> unwrap(call.last).schema[i].dtype] = <<"Boolean", "String", "String">>
    /\ acc_names(call.ctx) = <<"d">>

\* the accumulated names that are neither the row index nor the file path
\* column
physical_names(c) ==
    SelectSeq(node_names(c.acc_projections, expr_arena),
              LAMBDA n : Some(n) # c.row_index /\ Some(n) # c.file_path_col)

(***************************************************************************)
(* C24  get_scan_columns returns None exactly when nothing is accumulated; *)
(* otherwise it returns the accumulated names without the row-index name   *)
(* and the file-path column name, all others kept: in accumulated order    *)
(* when no reference schema is given, in increasing position of the        *)
(* reference schema when one is given.                                     *)
(***************************************************************************)
C24_ScanColumns ==
    last_call("get_scan_columns") =>
        LET c == unwrap(call.last)
            physical == physical_names(c)
        IN /\ c.result.tag = "Ok"
           /\ is_none(c.result.val) <=> c.acc_projections = <<>>
           /\ is_some(c.result.val) =>
                LET names == unwrap(c.result.val)
                IN /\ Len(names) = Len(physical)
                   /\ RangeOf(names) = RangeOf(physical)
                   /\ is_none(c.normalize_order_schema) => names = physical
                   /\ is_some(c.normalize_order_schema) =>
                        \A i, j \in 1..Len(names) :
                            i < j =>
                               /\ contains(unwrap(c.normalize_order_schema), names[i])
                               /\ contains(unwrap(c.normalize_order_schema), names[j])
                               /\ index_of(unwrap(c.normalize_order_schema), names[i])
                                    < index_of(unwrap(c.normalize_order_schema), names[j])

(***************************************************************************)
(* C25  update_scan_schema, when every requested name is in the source     *)
(* schema, returns a schema whose names are exactly the requested names,   *)
(* each with the type it has in the source schema: with sort_projections   *)
(* in increasing position of the source schema, without it in the order of *)
(* the accumulated columns.  When a requested name is absent from the      *)
(* source schema it returns an error and no schema.                        *)
(***************************************************************************)
C25_ScanSchema ==
    last_call("update_scan_schema") =>
        LET c == unwrap(call.last)
            names == node_names(c.acc_projections, expr_arena)
        IN IF RangeOf(names) \subseteq schema_names(c.schema)
           THEN /\ c.result.tag = "Ok"
                /\ schema_names(c.result.val) = RangeOf(names)
                /\ Len(c.result.val) = Cardinality(RangeOf(names))
                /\ \A i \in 1..Len(c.result.val) :
                      c.result.val[i].dtype
                          = get_dtype(c.schema, c.result.val[i].name)
                /\ c.sort_projections =>
                      \A i, j \in 1..Len(c.result.val) :
                          i < j => index_of(c.schema, c.result.val[i].name)
                                      < index_of(c.schema, c.result.val[j].name)
                /\ ~c.sort_projections => iter_names(c.result.val) = names
           ELSE /\ c.result.tag = "Err"
                /\ c.result.val \in RangeOf(names) \ schema_names(c.schema)

\* (b, a, d) requested of the schema (d, c, b, a) with sort_projections: the
\* result is (d: String, b: String, a: Date)
C25_Witness ==
    /\ last_call("update_scan_schema")
    /\ node_names(unwrap(call.last).acc_projections, expr_arena) = <<"b", "a", "d">>
    /\ unwrap(call.last).sort_projections
    /\ unwrap(call.last).result
          = Ok(zip_schema(<<"d", "b", "a">>, <<"String", "String", "Date">>))

\* d requested of the schema (c, b, a): an error
C25_WitnessError ==
    /\ last_call("update_scan_schema")
    /\ unwrap(call.last).schema = SchemaCBA
    /\ unwrap(call.last).result = Err("d")

(***************************************************************************)
(* C26  no_pushdown_restart_opt pushes down every input of the node with a *)
(* context whose acc_projections and projected_names are empty and whose   *)
(* flags (projections_seen, is_count_star) are those of the incoming       *)
(* context; it returns the node with its inputs rewritten: the bare node   *)
(* when nothing was accumulated, otherwise a simple projection over the    *)
(* incoming accumulated columns, in their order, whose input is the node.  *)
(***************************************************************************)
C26_RestartOpt ==
    \A i \in 1..Len(stack) :
        stack[i].lp.kind = "Other" =>
            LET f == stack[i] IN
            /\ i < Len(stack) =>
                  /\ stack[i + 1].slot = f.lp.inputs[Len(f.done) + 1]
                  /\ stack[i + 1].ctx_in.acc_projections = <<>>
                  /\ stack[i + 1].ctx_in.projected_names = {}
                  /\ stack[i + 1].ctx_in.inner = f.ctx_in.inner
            /\ (f.pc = "ret" /\ f.res.tag = "Ok") =>
                  /\ f.done = f.lp.inputs
                  /\ \A n \in RangeOf(f.lp.inputs) :
                        count("push_down", n) = 1 /\ count("replace", n) = 1
                  /\ IF f.ctx_in.acc_projections = <<>>
                     THEN f.res.val = f.lp
                     ELSE /\ f.res.val.kind = "SimpleProjection"
                          /\ iter_names(f.res.val.columns)
                                = node_names(f.ctx_in.acc_projections, expr_arena)
                          /\ lp_arena[f.res.val.input] = f.lp

\* a node of two inputs reached with (c, a) accumulated: both inputs were
\* pushed down and the node came back under a projection of c and a
C26_Witness ==
    /\ finished_ok(1)
    /\ plan.root.kind = "Other"
    /\ acc_names(entry.ctx) = <<"c", "a">>
    /\ unwrap(outcome).val.kind = "SimpleProjection"
    /\ iter_names(unwrap(outcome).val.columns) = <<"c", "a">>
    /\ lp_arena[unwrap(outcome).val.input] = plan.root
    /\ \A n \in RangeOf(plan.root.inputs) : count("replace", n) = 1

\* nothing accumulated: the bare node came back
C26_WitnessBare ==
    /\ finished_ok(1)
    /\ plan.root.kind = "Other"
    /\ entry.ctx.acc_projections = <<>>
    /\ unwrap(outcome).val = plan.root

RECURSIVE pages_received(_, _)
pages_received(cs, k) ==
    IF k > Len(cs) THEN <<>>
    ELSE (IF is_some(cs[k].response) /\ unwrap(cs[k].response).tag = "Ok"
          THEN unwrap(cs[k].response).val.items ELSE <<>>)
         \o pages_received(cs, k + 1)

all_ok(cs, lo, hi) == \A j \in lo..hi : cs[j].result.tag = "Ok"

last_page_before(cs, k) ==
    \E j \in 1..(k - 1) :
        \/ cs[j].result = Ok(None)
        \/ /\ is_some(cs[j].response)
           /\ unwrap(cs[j].response).tag = "Ok"
           /\ is_none(unwrap(cs[j].response).val.next_page_token)

\* C27: as long as every call of next so far succeeded, the first call sends
\* the request without a page_token, a later call sends the page_token of
\* the response just before it, and once a response had no next_page_token
\* every later call sends nothing and returns None; read_all_pages, when
\* all its responses succeed, returns the items of its pages concatenated
\* in the order received.
C27_Pagination ==
    walker.on =>
        /\ \A k \in 1..Len(walker.calls) :
            all_ok(walker.calls, 1, k - 1) =>
                LET c == walker.calls[k] IN
                IF k = 1
                THEN c.request = Some([page_token |-> None])
                ELSE IF last_page_before(walker.calls, k)
                THEN c.request = None /\ c.result = Ok(None)
                ELSE /\ is_some(unwrap(walker.calls[k - 1].response).val.next_page_token)
                     /\ c.request =
                            Some([page_token |->
                                unwrap(walker.calls[k - 1].response).val.next_page_token])
        /\ (walker.pc = "done"
              /\ all_ok(walker.calls, walker.from + 1, Len(walker.calls))) =>
                walker.result =
                    Some(Ok(pages_received(walker.calls, walker.from + 1)))

C27_Witness ==
    /\ walker.on
    /\ Len(walker.calls) = 4
    /\ walker.calls[2].request = Some([page_token |-> Some("t2")])
    /\ walker.calls[3].request = Some([page_token |-> Some("t1")])
    /\ walker.calls[4].request = None
    /\ walker.from = 0
    /\ walker.result = Some(Ok(<<"y", "z", "x", "y", "z">>))

C27_WitnessNext ==
    /\ walker.on
    /\ walker.pc = "next"
    /\ Len(walker.calls) = 4
    /\ walker.calls[2].request = Some([page_token |-> Some("t1")])
    /\ walker.calls[3].result = Ok(None)
    /\ walker.calls[4].result = Ok(None)

RECURSIVE batches_of(_, _)
batches_of(results, k) ==
    IF k > Len(results) THEN <<>>
    ELSE (IF results[k].tag = "Ok" /\ is_some(results[k].val)
          THEN <<unwrap(results[k].val)>> ELSE <<>>)
         \o batches_of(results, k + 1)

next_results ==
    SelectSeq([k \in 1..Len(batch.calls) |->
                  IF batch.calls[k].op = "next" THEN batch.calls[k].result
                  ELSE Err("other call")],
              LAMBDA r : r # Err("other call"))

gave_batch(c) == c.op = "peek" /\ c.result.tag = "Ok" /\ is_some(c.result.val)

\* C28: the batches next has returned, followed by the batch still buffered
\* (if any), are exactly the batches the wrapped function has produced, in
\* its order; a peek that returned a batch returned the one the next call
\* of next returns; and a peek made while a batch is buffered (a peek right
\* after a peek that returned a batch) does not call the function.
C28_PeekTransparent ==
    batch.on =>
        /\ batches_of(next_results, 1) \o batch.self.peek
                = batches_of(batch.produced, 1)
        /\ \A k \in 1..Len(batch.calls) :
            gave_batch(batch.calls[k]) =>
                /\ \A j \in (k + 1)..Len(batch.calls) :
                    (batch.calls[j].op = "next"
                        /\ \A i \in (k + 1)..(j - 1) : batch.calls[i].op # "next")
                    => batch.calls[j].result = batch.calls[k].result
                /\ (k < Len(batch.calls) /\ batch.calls[k + 1].op = "peek") =>
                    /\ batch.calls[k + 1].func = 0
                    /\ batch.calls[k + 1].result = batch.calls[k].result

C28_Witness ==
    /\ batch.on
    /\ Len(batch.calls) = 4
    /\ batch.calls[1].op = "peek" /\ batch.calls[1].result = Ok(Some("B"))
    /\ batch.calls[2].op = "peek" /\ batch.calls[2].func = 0
    /\ batch.calls[3].op = "next" /\ batch.calls[3].result = Ok(Some("B"))
    /\ batch.calls[4].op = "next" /\ batch.calls[4].result = Ok(Some("A"))
    /\ batch.produced = <<Ok(Some("B")), Ok(Some("A"))>>

C28_WitnessSchema ==
    /\ batch.on
    /\ Len(batch.calls) = 3
    /\ batch.calls[1].op = "_file_schema"
    /\ batch.output_schema = Some(df_schema("A"))
    /\ batch.calls[2].op = "peek" /\ batch.calls[2].func = 0
    /\ batch.calls[3].op = "next" /\ batch.calls[3].result = Ok(Some("A"))

length_is_sum(s) == s.length = total_len(s.chunks)

\* C29: as long as every length stayed within the range of IdxSize, the
\* field length of a NullChunked (the one operated on, and the right part a
\* split_at gave) is the sum of the lengths of its chunks; and an append or
\* append_owned of a series that is not null-typed returned an error and
\* left length and chunks as they were.
C29_NullLength ==
    nulls.on =>
        /\ nulls.fits =>
            /\ length_is_sum(nulls.this)
            /\ nulls.other.dtype = "Null" => length_is_sum(nulls.other)
        /\ (nulls.last.op \in {"append", "append_owned"}
              /\ nulls.other.dtype # "Null") =>
            /\ nulls.last.result = Err("expected null dtype")
            /\ nulls.this = nulls.last.before

C29_Witness ==
    /\ nulls.on
    /\ nulls.fits
    /\ nulls.last.op = "append"
    /\ nulls.last.result = Ok(<<>>)
    /\ nulls.this.chunks = <<1, 0, 2, 2>>
    /\ nulls.this.length = 5

C29_WitnessError ==
    /\ nulls.on
    /\ nulls.fits
    /\ nulls.last.op = "append_owned"
    /\ nulls.other = Int32Chunked(2)
    /\ nulls.this.chunks = <<2, 1>>
    /\ nulls.last.result.tag = "Err"

C29_WitnessSplit ==
    /\ nulls.on
    /\ nulls.fits
    /\ nulls.last.op = "split_at"
    /\ nulls.this.chunks = <<2, 1>>
    /\ nulls.other.chunks = <<1, 2>>
    /\ nulls.other.length = 3

cleared(ca) == [ca EXCEPT !.is_sorted_flag = "Not"]

is_extreme(v, idx, fn) ==
    /\ idx + 1 \in 1..Len(v)
    /\ is_some(v[idx + 1])
    /\ \A j \in 1..Len(v) :
        is_some(v[j]) =>
            IF fn = "arg_min" THEN unwrap(v[idx + 1]) <= unwrap(v[j])
            ELSE unwrap(v[idx + 1]) >= unwrap(v[j])

extreme_index(c) ==
    LET v == flatten(series.ca.chunks) IN
    IF non_null(v) = <<>> THEN c.result = None
    ELSE is_some(c.result) /\ is_extreme(v, unwrap(c.result), c.fn)

flag_independent(c) ==
    c.result = IF c.fn = "arg_min" THEN arg_min_numeric_dispatch(cleared(series.ca))
               ELSE arg_max_numeric_dispatch(cleared(series.ca))

\* C30: on an integer series arg_min and arg_max return None when every
\* value is null (the empty series included) and otherwise the index of a
\* non-null value equal to the minimum (maximum); and a correctly flagged
\* series gives the index the same values give with the flag cleared.
C30_ArgMinMax ==
    series.on =>
        \A k \in 1..Len(series.calls) :
            extreme_index(series.calls[k]) /\ flag_independent(series.calls[k])

====
